---- MODULE Spec2Model ----
(***************************************************************************)
(* Noise protocol I/O (protocols/noise/src/io.rs): the framed, encrypted   *)
(* duplex adapter NoiseOutput<T>.                                          *)
(*                                                                         *)
(* The model follows one direction of a connection end to end: the write   *)
(* half of one NoiseOutput (write_state, buffer.write, buffer.write_crypto,*)
(* the sending cipher state) and the read half of its peer (read_state,    *)
(* buffer.read, buffer.read_crypto, the receiving cipher state), joined by *)
(* the underlying transports `io`, which may complete every operation      *)
(* partially, suspend, fail, or be closed.                                 *)
(*                                                                         *)
(* Sizes are scaled: a byte is a digit in 0..ByteBase-1, so the two-byte   *)
(* big-endian length prefix ranges over 0..ByteBase^2-1 exactly as u16     *)
(* ranges over 0..256^2-1.                                                 *)
(*                                                                         *)
(* Two further components stand beside it: the relay transport wrapper     *)
(* (protocols/relay/src/transport.rs) and the incoming relay request       *)
(* (protocols/relay/src/protocol/incoming_relay_req.rs).                   *)
(***************************************************************************)
EXTENDS Integers, Sequences, FiniteSets, TLC

VARIABLES
    read_state,   \* NoiseOutput.read_state  (reading adapter)
    write_state,  \* NoiseOutput.write_state (writing adapter)
    buffer,       \* the four slices of Buffer::borrow_mut
    session,      \* cipher states: send nonce (writer), recv nonce (reader)
    wire,         \* bytes the writer's transport has accepted, in order
    rpos,         \* number of wire bytes the reader's transport has delivered
    tamper,       \* at most one wire byte replaced in flight
    closed,       \* the writer's transport has been closed (poll_close)
    nerr,         \* transport errors injected so far
    sent,         \* history: plaintext bytes accepted by poll_write (Ready(n))
    recvd,        \* history: plaintext bytes returned by poll_read
    encd,         \* history: every frame produced by encryption, concatenated
    last,         \* history: the last call, its result and what it did
    relay,        \* RelayTransportWrapper, its channel and the behaviour
    req           \* an IncomingRelayReq, its notifier and its two streams

vars == <<read_state, write_state, buffer, session, wire, rpos, tamper,
          closed, nerr, sent, recvd, encd, last, relay, req>>

----------------------------------------------------------------------------
(* Scale and bounds *)

\* Number of values of a byte (256 in the program).
ByteBase == 4
\* Accumulator capacity (16384 in the program), scaled.
MAX_WRITE_BUF_LEN == 2
\* Length of the authentication tag appended by the session (16 in snow).
TAGLEN == 1
\* The sending cipher state refuses to encrypt once its nonce reaches this.
MaxNonce == 2
\* Total plaintext bytes offered to poll_write in a behaviour.
MaxBytes == 3
\* Transport errors injected in a behaviour.
MaxErr == 1

\* Largest value of the two-byte length prefix (65535 = 256^2 - 1).
MAX_NOISE_PKG_LEN == ByteBase * ByteBase - 1
TOTAL_BUFFER_LEN == 2 * MAX_NOISE_PKG_LEN + 3 * MAX_WRITE_BUF_LEN

\* Longest source slice of one poll_write call and longest destination slice
\* of one poll_read call: the accumulator's capacity.
MaxSrc == MAX_WRITE_BUF_LEN
MaxDst == MAX_WRITE_BUF_LEN

Byte == 0 .. (ByteBase - 1)

Min(a, b) == IF a < b THEN a ELSE b

Zeros(n) == [i \in 1..n |-> 0]

IsPrefix(s, t) == Len(s) <= Len(t) /\ SubSeq(t, 1, Len(s)) = s

RECURSIVE Sum(_)
Sum(s) == IF s = <<>> THEN 0 ELSE Head(s) + Sum(Tail(s))

\* dst[off+1 .. off+Len(src)] := src  (copy_from_slice / a transport read)
Patch(dst, off, src) ==
    [i \in 1..Len(dst) |->
        IF i > off /\ i <= off + Len(src) THEN src[i - off] ELSE dst[i]]

----------------------------------------------------------------------------
(* Length prefix codec *)

\* `n as u16`
AsU16(n) == n % (ByteBase * ByteBase)
\* u16::to_be_bytes
to_be_bytes(n) == <<n \div ByteBase, n % ByteBase>>
\* u16::from_be_bytes
from_be_bytes(b) == b[1] * ByteBase + b[2]

----------------------------------------------------------------------------
(* The session (snow transport mode): an AEAD with a counter nonce.        *)

Tag(n, p) == [j \in 1..TAGLEN |-> (Sum(p) + n + j) % ByteBase]
Seal(n, p) == [i \in 1..Len(p) |-> (p[i] + n + 1) % ByteBase] \o Tag(n, p)
Open(n, c) ==
    [i \in 1..(Len(c) - TAGLEN) |->
        (c[i] + ByteBase - ((n + 1) % ByteBase)) % ByteBase]

\* session.write_message(payload, out): fails when the message would exceed
\* the maximum message length or the output slice, or the nonce is exhausted.
write_message(n, payload, outLen) ==
    IF Len(payload) + TAGLEN > Min(MAX_NOISE_PKG_LEN, outLen) \/ n >= MaxNonce
    THEN [ok |-> FALSE, len |-> 0, out |-> <<>>]
    ELSE [ok |-> TRUE, len |-> Len(payload) + TAGLEN, out |-> Seal(n, payload)]

\* session.read_message(message, out): fails on a short message or a tag
\* mismatch.  On a tag mismatch the candidate plaintext has been written to
\* `out` already.
read_message(n, message, outLen) ==
    IF Len(message) < TAGLEN \/ Len(message) - TAGLEN > outLen
    THEN [ok |-> FALSE, len |-> 0, out |-> <<>>]
    ELSE LET p == Open(n, message) IN
         IF SubSeq(message, Len(message) - TAGLEN + 1, Len(message)) = Tag(n, p)
         THEN [ok |-> TRUE, len |-> Len(p), out |-> p]
         ELSE [ok |-> FALSE, len |-> 0, out |-> p]

----------------------------------------------------------------------------
(* Results *)

Ready(n)   == [kind |-> "Ready", n |-> n, err |-> ""]
Pending    == [kind |-> "Pending", n |-> 0, err |-> ""]
Err(e)     == [kind |-> "Err", n |-> 0, err |-> e]
NoRet      == [kind |-> "", n |-> 0, err |-> ""]

----------------------------------------------------------------------------
(* ReadState *)

RS(tag, buf, off, len, ok) ==
    [tag |-> tag, buf |-> buf, off |-> off, len |-> len, ok |-> ok]
ReadInit            == RS("Init", <<0, 0>>, 0, 0, TRUE)
ReadLen(buf, off)   == RS("ReadLen", buf, off, 0, TRUE)
ReadData(len, off)  == RS("ReadData", <<0, 0>>, off, len, TRUE)
CopyData(len, off)  == RS("CopyData", <<0, 0>>, off, len, TRUE)
ReadEof(ok)         == RS("Eof", <<0, 0>>, 0, 0, ok)
DecErr              == RS("DecErr", <<0, 0>>, 0, 0, TRUE)

(* WriteState *)

WS(tag, len, buf, off) == [tag |-> tag, len |-> len, buf |-> buf, off |-> off]
WriteInit               == WS("Init", 0, <<0, 0>>, 0)
BufferData(off)         == WS("BufferData", 0, <<0, 0>>, off)
WriteLen(len, buf, off) == WS("WriteLen", len, buf, off)
WriteData(len, off)     == WS("WriteData", len, <<0, 0>>, off)
WriteEof                == WS("Eof", 0, <<0, 0>>, 0)
EncErr                  == WS("EncErr", 0, <<0, 0>>, 0)

----------------------------------------------------------------------------
(* The underlying transport `io: T` of the reading adapter.  `e.data` is   *)
(* the byte stream as it arrives, `e.eof` says the stream ends after it,   *)
(* `e.faulty` says the transport may fail this call, `e.suspends` that it  *)
(* may return Pending.                                                     *)

\* AsyncRead::poll_read(io, cx, dst) with Len(dst) = want >= 1, at stream
\* position pos: suspend, fail, deliver 1..want available bytes, or report
\* end of stream (0) once every byte has been delivered.
IoRead(e, pos, want) ==
    (IF e.suspends THEN {Pending} ELSE {})
    \cup (IF e.faulty THEN {Err("Io")} ELSE {})
    \cup {Ready(k) : k \in 1 .. Min(Len(e.data) - pos, want)}
    \cup (IF e.eof /\ pos = Len(e.data) THEN {Ready(0)} ELSE {})

\* The outcomes of read_frame_len(io, cx, &mut buf, &mut off).  buf and off
\* are the caller's variables, updated in place; pos is the stream position
\* and calls counts the transport calls made.
LenRes(res, val, buf, off, pos, calls) ==
    [res |-> res, val |-> val, buf |-> buf, off |-> off, pos |-> pos,
     calls |-> calls]

RECURSIVE read_frame_len(_, _, _, _, _)
read_frame_len(e, pos, buf, off, calls) ==
    UNION {
        CASE r.kind = "Pending" ->
                {LenRes("Pending", 0, buf, off, pos, calls + 1)}
          [] r.kind = "Err" ->
                {LenRes("Err", 0, buf, off, pos, calls + 1)}
          [] r.kind = "Ready" /\ r.n = 0 ->
                {LenRes("None", 0, buf, off, pos, calls + 1)}
          [] OTHER ->
                LET nbuf == Patch(buf, off, SubSeq(e.data, pos + 1, pos + r.n))
                    noff == off + r.n
                IN  IF noff = 2
                    THEN {LenRes("Some", from_be_bytes(nbuf), nbuf, noff,
                                 pos + r.n, calls + 1)}
                    ELSE read_frame_len(e, pos + r.n, nbuf, noff, calls + 1)
        : r \in IoRead(e, pos, 2 - off) }

----------------------------------------------------------------------------
(* poll_read.  A context c holds what one call can change:                 *)
(*   st           this.read_state                                          *)
(*   read         buffer.read        (ciphertext staging)                  *)
(*   read_crypto  buffer.read_crypto (plaintext staging)                   *)
(*   n            the receiving nonce of this.session                      *)
(*   pos          position of this.io in the stream                        *)
(*   io, dec      transport calls and read_message calls made by the call  *)
(*   ev           what happened during the call                            *)
(*   loc          the local (buf, off) of the ReadLen arm when it returned *)
(* A step either continues the loop or returns `ret`, having copied `out`  *)
(* into the caller's slice.                                                *)

Loc(buf, off) == [buf |-> buf, off |-> off]
NoLoc == Loc(<<0, 0>>, 0)

Continue(c)       == [done |-> FALSE, c |-> c, ret |-> NoRet, out |-> <<>>]
Return(c, ret)    == [done |-> TRUE, c |-> c, ret |-> ret, out |-> <<>>]
Deliver(c, bytes) == [done |-> TRUE, c |-> c, ret |-> Ready(Len(bytes)),
                      out |-> bytes]

\* ReadState::Init
read_init(c) == {Continue([c EXCEPT !.st = ReadLen(<<0, 0>>, 0)])}

\* read_len without the write-back of (buf, off) in its Pending arm.
read_len_pending_not_stored(e, c) ==
    { LET c1 == [c EXCEPT !.pos = r.pos, !.io = r.calls,
                          !.loc = Loc(r.buf, r.off)]
      IN  CASE r.res = "None" ->
                 Return([c1 EXCEPT !.st = ReadEof(TRUE),
                                   !.ev = @ \cup {IF r.off = 0 THEN "LenEof0"
                                                  ELSE "LenEofMid"}],
                        Ready(0))
            [] r.res = "Err" ->
                 Return([c1 EXCEPT !.ev = @ \cup {"LenIoErr"}], Err("Io"))
            [] r.res = "Pending" ->
                 Return([c1 EXCEPT !.ev = @ \cup {"LenPending"}], Pending)
            [] r.res = "Some" /\ r.val = 0 ->
                 Continue([c1 EXCEPT !.st = ReadInit,
                                     !.ev = @ \cup {"EmptyFrame"}])
            [] OTHER ->
                 Continue([c1 EXCEPT !.st = ReadData(r.val, 0)])
      : r \in read_frame_len(e, c.pos, c.st.buf, c.st.off, c.io) }

\* read_len that returns Ready(0) to the caller for an empty frame.
read_len_returns_on_empty_frame(e, c) ==
    { LET c1 == [c EXCEPT !.pos = r.pos, !.io = r.calls,
                          !.loc = Loc(r.buf, r.off)]
      IN  CASE r.res = "None" ->
                 Return([c1 EXCEPT !.st = ReadEof(TRUE),
                                   !.ev = @ \cup {IF r.off = 0 THEN "LenEof0"
                                                  ELSE "LenEofMid"}],
                        Ready(0))
            [] r.res = "Err" ->
                 Return([c1 EXCEPT !.ev = @ \cup {"LenIoErr"}], Err("Io"))
            [] r.res = "Pending" ->
                 Return([c1 EXCEPT !.st = ReadLen(r.buf, r.off),
                                   !.ev = @ \cup {"LenPending"}],
                        Pending)
            [] r.res = "Some" /\ r.val = 0 ->
                 Return([c1 EXCEPT !.st = ReadInit,
                                   !.ev = @ \cup {"EmptyFrame"}],
                        Ready(0))
            [] OTHER ->
                 Continue([c1 EXCEPT !.st = ReadData(r.val, 0)])
      : r \in read_frame_len(e, c.pos, c.st.buf, c.st.off, c.io) }

\* read_len without the special case of an empty frame: a length prefix of 0
\* leads to ReadData like any other.
read_len_no_empty_frame_case(e, c) ==
    { LET c1 == [c EXCEPT !.pos = r.pos, !.io = r.calls,
                          !.loc = Loc(r.buf, r.off)]
      IN  CASE r.res = "None" ->
                 Return([c1 EXCEPT !.st = ReadEof(TRUE),
                                   !.ev = @ \cup {IF r.off = 0 THEN "LenEof0"
                                                  ELSE "LenEofMid"}],
                        Ready(0))
            [] r.res = "Err" ->
                 Return([c1 EXCEPT !.ev = @ \cup {"LenIoErr"}], Err("Io"))
            [] r.res = "Pending" ->
                 Return([c1 EXCEPT !.st = ReadLen(r.buf, r.off),
                                   !.ev = @ \cup {"LenPending"}],
                        Pending)
            [] OTHER ->
                 Continue([c1 EXCEPT !.st = ReadData(r.val, 0)])
      : r \in read_frame_len(e, c.pos, c.st.buf, c.st.off, c.io) }

\* ReadState::ReadLen { mut buf, mut off }: buf and off are copies of the
\* fields; only the Pending arm writes them back.
read_len(e, c) ==
    { LET c1 == [c EXCEPT !.pos = r.pos, !.io = r.calls,
                          !.loc = Loc(r.buf, r.off)]
      IN  CASE r.res = "None" ->
                 Return([c1 EXCEPT !.st = ReadEof(TRUE),
                                   !.ev = @ \cup {IF r.off = 0 THEN "LenEof0"
                                                  ELSE "LenEofMid"}],
                        Ready(0))
            [] r.res = "Err" ->
                 Return([c1 EXCEPT !.ev = @ \cup {"LenIoErr"}], Err("Io"))
            [] r.res = "Pending" ->
                 Return([c1 EXCEPT !.st = ReadLen(r.buf, r.off),
                                   !.ev = @ \cup {"LenPending"}],
                        Pending)
            [] r.res = "Some" /\ r.val = 0 ->
                 Continue([c1 EXCEPT !.st = ReadInit,
                                     !.ev = @ \cup {"EmptyFrame"}])
            [] OTHER ->
                 Continue([c1 EXCEPT !.st = ReadData(r.val, 0)])
      : r \in read_frame_len(e, c.pos, c.st.buf, c.st.off, c.io) }

\* read_decrypt that goes on to CopyData after a failed decryption.
read_decrypt_error_not_stored(c, len) ==
    LET m == read_message(c.n, SubSeq(c.read, 1, len), Len(c.read_crypto))
        c1 == [c EXCEPT !.dec = @ + 1,
                        !.read_crypto = Patch(@, 0, m.out)]
    IN  IF m.ok
        THEN Continue([c1 EXCEPT !.st = CopyData(m.len, 0),
                                 !.n = @ + 1,
                                 !.ev = @ \cup (IF m.len = 0
                                                THEN {"DecEmpty"} ELSE {})])
        ELSE Return([c1 EXCEPT !.st = CopyData(len - TAGLEN, 0),
                               !.ev = @ \cup {"DecFail"}],
                    Err("InvalidData"))

\* The decrypt at the end of ReadState::ReadData (len == *off).
read_decrypt(c, len) ==
    LET m == read_message(c.n, SubSeq(c.read, 1, len), Len(c.read_crypto))
        c1 == [c EXCEPT !.dec = @ + 1,
                        !.read_crypto = Patch(@, 0, m.out)]
    IN  IF m.ok
        THEN Continue([c1 EXCEPT !.st = CopyData(m.len, 0),
                                 !.n = @ + 1,
                                 !.ev = @ \cup (IF m.len = 0
                                                THEN {"DecEmpty"} ELSE {})])
        ELSE Return([c1 EXCEPT !.st = DecErr, !.ev = @ \cup {"DecFail"}],
                    Err("InvalidData"))

\* read_data that reports the end of the stream inside a ciphertext as a
\* clean end of stream.
read_data_eof_clean(e, c) ==
    LET len == c.st.len
        off == c.st.off
    IN  { LET c1 == [c EXCEPT !.io = @ + 1]
          IN  CASE r.kind = "Pending" ->
                     Return([c1 EXCEPT !.ev = @ \cup {"DataPending"}], Pending)
                [] r.kind = "Err" ->
                     Return([c1 EXCEPT !.ev = @ \cup {"DataIoErr"}], Err("Io"))
                [] r.kind = "Ready" /\ r.n = 0 ->
                     Return([c1 EXCEPT !.st = ReadEof(TRUE),
                                       !.ev = @ \cup {"DataEof"}],
                            Ready(0))
                [] OTHER ->
                     LET c2 == [c1 EXCEPT
                                  !.read = Patch(@, off,
                                      SubSeq(e.data, c.pos + 1, c.pos + r.n)),
                                  !.pos = @ + r.n,
                                  !.st = ReadData(len, off + r.n)]
                     IN  IF len = off + r.n
                         THEN read_decrypt(c2, len)
                         ELSE Continue(c2)
          : r \in IoRead(e, c.pos, len - off) }

\* ReadState::ReadData { len, ref mut off }
read_data(e, c) ==
    LET len == c.st.len
        off == c.st.off
    IN  { LET c1 == [c EXCEPT !.io = @ + 1]
          IN  CASE r.kind = "Pending" ->
                     Return([c1 EXCEPT !.ev = @ \cup {"DataPending"}], Pending)
                [] r.kind = "Err" ->
                     Return([c1 EXCEPT !.ev = @ \cup {"DataIoErr"}], Err("Io"))
                [] r.kind = "Ready" /\ r.n = 0 ->
                     Return([c1 EXCEPT !.st = ReadEof(FALSE),
                                       !.ev = @ \cup {"DataEof"}],
                            Err("UnexpectedEof"))
                [] OTHER ->
                     LET c2 == [c1 EXCEPT
                                  !.read = Patch(@, off,
                                      SubSeq(e.data, c.pos + 1, c.pos + r.n)),
                                  !.pos = @ + r.n,
                                  !.st = ReadData(len, off + r.n)]
                     IN  IF len = off + r.n
                         THEN read_decrypt(c2, len)
                         ELSE Continue(c2)
          : r \in IoRead(e, c.pos, len - off) }

\* read_copy_data that copies from the start of read_crypto whatever off is.
read_copy_data_from_start(c, dstLen) ==
    LET len == c.st.len
        off == c.st.off
        n == Min(len - off, dstLen)
        bytes == SubSeq(c.read_crypto, 1, n)
    IN  {Deliver([c EXCEPT !.st = IF len = off + n
                                  THEN ReadLen(<<0, 0>>, 0)
                                  ELSE CopyData(len, off + n)],
                 bytes)}

\* read_copy_data that goes on with the loop once a frame's plaintext has
\* been copied out, instead of returning.
read_copy_data_continues(c, dstLen) ==
    LET len == c.st.len
        off == c.st.off
        n == Min(len - off, dstLen)
        bytes == SubSeq(c.read_crypto, off + 1, off + n)
    IN  IF len = off + n
        THEN {Continue([c EXCEPT !.st = ReadLen(<<0, 0>>, 0)])}
        ELSE {Deliver([c EXCEPT !.st = CopyData(len, off + n)], bytes)}

\* ReadState::CopyData { len, ref mut off }
read_copy_data(c, dstLen) ==
    LET len == c.st.len
        off == c.st.off
        n == Min(len - off, dstLen)
        bytes == SubSeq(c.read_crypto, off + 1, off + n)
    IN  {Deliver([c EXCEPT !.st = IF len = off + n
                                  THEN ReadLen(<<0, 0>>, 0)
                                  ELSE CopyData(len, off + n)],
                 bytes)}

\* read_terminal that treats every Eof as clean.
read_terminal_eof_always_clean(c) ==
    {Return(c, CASE c.st.tag = "DecErr" -> Err("InvalidData")
                 [] OTHER -> Ready(0))}

\* ReadState::Eof(Ok(())), ReadState::Eof(Err(())), ReadState::DecErr
read_terminal(c) ==
    {Return(c, CASE c.st.tag = "DecErr" -> Err("InvalidData")
                 [] c.st.tag = "Eof" /\ c.st.ok -> Ready(0)
                 [] OTHER -> Err("UnexpectedEof"))}

\* One iteration of the loop of poll_read: the arm of `match this.read_state`.
read_arm(e, c, dstLen) ==
    CASE c.st.tag = "Init"     -> read_init(c)
      [] c.st.tag = "ReadLen"  -> read_len(e, c)
      [] c.st.tag = "ReadData" -> read_data(e, c)
      [] c.st.tag = "CopyData" -> read_copy_data(c, dstLen)
      [] OTHER                 -> read_terminal(c)

\* NoiseOutput::poll_read(cx, buf) with Len(buf) = dstLen: every way the call
\* can end.
RECURSIVE poll_read(_, _, _)
poll_read(e, c, dstLen) ==
    UNION { IF s.done THEN {s} ELSE poll_read(e, s.c, dstLen)
            : s \in read_arm(e, c, dstLen) }

----------------------------------------------------------------------------
(* The underlying transport `io: T` of the writing adapter.  `e.faulty`    *)
(* says it may fail this call, `e.refuse` that it may refuse bytes,        *)
(* `e.suspends` that it may return Pending.                                *)

\* AsyncWrite::poll_write(io, cx, src) with Len(src) = want >= 1: suspend,
\* fail, accept 1..want bytes, or accept none (0: the sink is closed).
IoWrite(e, want) ==
    (IF e.suspends THEN {Pending} ELSE {})
    \cup (IF e.faulty THEN {Err("Io")} ELSE {})
    \cup (IF e.refuse THEN {Ready(0)} ELSE {})
    \cup {Ready(k) : k \in 1 .. want}

\* The outcomes of write_frame_len(io, cx, &buf, &mut off).  off is the
\* caller's variable, updated in place; out is the stream written so far.
WLenRes(res, off, out, calls) ==
    [res |-> res, off |-> off, out |-> out, calls |-> calls]

RECURSIVE write_frame_len(_, _, _, _, _)
write_frame_len(e, out, buf, off, calls) ==
    UNION {
        CASE r.kind = "Pending" -> {WLenRes("Pending", off, out, calls + 1)}
          [] r.kind = "Err"     -> {WLenRes("Err", off, out, calls + 1)}
          [] r.kind = "Ready" /\ r.n = 0 ->
                {WLenRes("False", off, out, calls + 1)}
          [] OTHER ->
                LET nout == out \o SubSeq(buf, off + 1, off + r.n)
                    noff == off + r.n
                IN  IF noff = 2
                    THEN {WLenRes("True", noff, nout, calls + 1)}
                    ELSE write_frame_len(e, nout, buf, noff, calls + 1)
        : r \in IoWrite(e, 2 - off) }

----------------------------------------------------------------------------
(* poll_write and poll_flush.  A context c holds what one call can change: *)
(*   st            this.write_state                                        *)
(*   write         buffer.write        (plaintext accumulator)             *)
(*   write_crypto  buffer.write_crypto (ciphertext staging)                *)
(*   n             the sending nonce of this.session                       *)
(*   wire          the bytes this.io has accepted                          *)
(*   encd          history of the frames encrypted                         *)
(*   io, enc       transport calls and write_message calls made            *)
(*   ev            what happened during the call                           *)
(*   loc           the local off of the WriteLen arm when it returned      *)

\* write_encrypt that reports a failed encryption without moving to EncErr.
write_encrypt_failure_not_stored(c, payload) ==
    LET m == write_message(c.n, payload, Len(c.write_crypto))
        c1 == [c EXCEPT !.enc = @ + 1]
    IN  IF m.ok
        THEN [c1 EXCEPT !.st = WriteLen(m.len, to_be_bytes(AsU16(m.len)), 0),
                        !.write_crypto = Patch(@, 0, m.out),
                        !.n = @ + 1,
                        !.encd = @ \o to_be_bytes(AsU16(m.len)) \o m.out]
        ELSE [c1 EXCEPT !.ev = @ \cup {"EncFail"}]

\* The state after session.write_message(payload, buffer.write_crypto)
\* returned Ok(n), or EncErr.
write_encrypt(c, payload) ==
    LET m == write_message(c.n, payload, Len(c.write_crypto))
        c1 == [c EXCEPT !.enc = @ + 1]
    IN  IF m.ok
        THEN [c1 EXCEPT !.st = WriteLen(m.len, to_be_bytes(AsU16(m.len)), 0),
                        !.write_crypto = Patch(@, 0, m.out),
                        !.n = @ + 1,
                        !.encd = @ \o to_be_bytes(AsU16(m.len)) \o m.out]
        ELSE [c1 EXCEPT !.st = EncErr, !.ev = @ \cup {"EncFail"}]

\* WriteState::Init in poll_write
write_init(c) == {Continue([c EXCEPT !.st = BufferData(0)])}

\* write_buffer_data that does not encrypt when the accumulator fills.
write_buffer_data_no_encrypt(c, src) ==
    LET off == c.st.off
        n == Min(MAX_WRITE_BUF_LEN - off, Len(src))
    IN  {Return([c EXCEPT !.write = Patch(@, off, SubSeq(src, 1, n)),
                          !.st = BufferData(off + n)],
                Ready(n))}

\* write_buffer_data that goes on with the loop after encrypting a full
\* accumulator instead of returning Ready(n).
write_buffer_data_drives_frame(c, src) ==
    LET off == c.st.off
        n == Min(MAX_WRITE_BUF_LEN - off, Len(src))
        c1 == [c EXCEPT !.write = Patch(@, off, SubSeq(src, 1, n)),
                        !.st = BufferData(off + n)]
    IN  IF off + n = MAX_WRITE_BUF_LEN
        THEN LET c2 == write_encrypt(c1, c1.write)
             IN  IF c2.st.tag = "EncErr"
                 THEN {Return(c2, Err("InvalidData"))}
                 ELSE {Continue(c2)}
        ELSE {Return(c1, Ready(n))}

\* WriteState::BufferData { ref mut off } in poll_write
write_buffer_data(c, src) ==
    LET off == c.st.off
        n == Min(MAX_WRITE_BUF_LEN - off, Len(src))
        c1 == [c EXCEPT !.write = Patch(@, off, SubSeq(src, 1, n)),
                        !.st = BufferData(off + n)]
    IN  IF off + n = MAX_WRITE_BUF_LEN
        THEN LET c2 == write_encrypt(c1, c1.write)
             IN  IF c2.st.tag = "EncErr"
                 THEN {Return(c2, Err("InvalidData"))}
                 ELSE {Return(c2, Ready(n))}
        ELSE {Return(c1, Ready(n))}

\* write_len that treats the frame as written once its length prefix is.
write_len_forgets_frame(e, c) ==
    { LET c1 == [c EXCEPT !.wire = r.out, !.io = r.calls,
                          !.loc = Loc(c.st.buf, r.off)]
      IN  CASE r.res = "False" ->
                 Return([c1 EXCEPT !.st = WriteEof,
                                   !.ev = @ \cup {"LenZero"}],
                        Err("WriteZero"))
            [] r.res = "Err" ->
                 Return([c1 EXCEPT !.ev = @ \cup {"LenIoErr"}], Err("Io"))
            [] r.res = "Pending" ->
                 Return([c1 EXCEPT !.st = WriteLen(c.st.len, c.st.buf, r.off),
                                   !.ev = @ \cup {"LenPending"}],
                        Pending)
            [] OTHER ->
                 Continue([c1 EXCEPT !.st = WriteInit])
      : r \in write_frame_len(e, c.wire, c.st.buf, c.st.off, c.io) }

\* WriteState::WriteLen { len, mut buf, mut off }, the same in poll_write and
\* poll_flush: off is a copy of the field; only the Pending arm writes it back.
write_len(e, c) ==
    { LET c1 == [c EXCEPT !.wire = r.out, !.io = r.calls,
                          !.loc = Loc(c.st.buf, r.off)]
      IN  CASE r.res = "False" ->
                 Return([c1 EXCEPT !.st = WriteEof,
                                   !.ev = @ \cup {"LenZero"}],
                        Err("WriteZero"))
            [] r.res = "Err" ->
                 Return([c1 EXCEPT !.ev = @ \cup {"LenIoErr"}], Err("Io"))
            [] r.res = "Pending" ->
                 Return([c1 EXCEPT !.st = WriteLen(c.st.len, c.st.buf, r.off),
                                   !.ev = @ \cup {"LenPending"}],
                        Pending)
            [] OTHER ->
                 Continue([c1 EXCEPT !.st = WriteData(c.st.len, 0)])
      : r \in write_frame_len(e, c.wire, c.st.buf, c.st.off, c.io) }

\* write_data that returns to the caller when the frame is complete instead
\* of going on with the loop of poll_write.
write_data_stops_after_frame(e, c, flushing) ==
    LET len == c.st.len
        off == c.st.off
    IN  { LET c1 == [c EXCEPT !.io = @ + 1]
          IN  CASE r.kind = "Pending" ->
                     Return([c1 EXCEPT !.ev = @ \cup {"DataPending"}], Pending)
                [] r.kind = "Err" ->
                     Return([c1 EXCEPT !.ev = @ \cup {"DataIoErr"}], Err("Io"))
                [] r.kind = "Ready" /\ r.n = 0 ->
                     Return([c1 EXCEPT !.st = WriteEof,
                                       !.ev = @ \cup {"DataZero"}],
                            Err("WriteZero"))
                [] OTHER ->
                     LET c2 == [c1 EXCEPT
                                  !.wire = @ \o SubSeq(c.write_crypto,
                                                       off + 1, off + r.n),
                                  !.st = WriteData(len, off + r.n)]
                     IN  IF len = off + r.n
                         THEN Return([c2 EXCEPT !.st = WriteInit], Ready(0))
                         ELSE Continue(c2)
          : r \in IoWrite(e, len - off) }

\* write_data that, when poll_flush completes the frame, reports Ready(Ok(()))
\* but leaves the state WriteData{len, off = len}.
write_data_flush_keeps_state(e, c, flushing) ==
    LET len == c.st.len
        off == c.st.off
    IN  { LET c1 == [c EXCEPT !.io = @ + 1]
          IN  CASE r.kind = "Pending" ->
                     Return([c1 EXCEPT !.ev = @ \cup {"DataPending"}], Pending)
                [] r.kind = "Err" ->
                     Return([c1 EXCEPT !.ev = @ \cup {"DataIoErr"}], Err("Io"))
                [] r.kind = "Ready" /\ r.n = 0 ->
                     Return([c1 EXCEPT !.st = WriteEof,
                                       !.ev = @ \cup {"DataZero"}],
                            Err("WriteZero"))
                [] OTHER ->
                     LET c2 == [c1 EXCEPT
                                  !.wire = @ \o SubSeq(c.write_crypto,
                                                       off + 1, off + r.n),
                                  !.st = WriteData(len, off + r.n)]
                     IN  IF len = off + r.n
                         THEN IF flushing
                              THEN Return(c2, Ready(0))
                              ELSE Continue([c2 EXCEPT !.st = WriteInit])
                         ELSE Continue(c2)
          : r \in IoWrite(e, len - off) }

\* WriteState::WriteData { len, ref mut off }.  When the frame is complete
\* poll_write goes on with the loop; poll_flush returns Ready(Ok(())).
write_data(e, c, flushing) ==
    LET len == c.st.len
        off == c.st.off
    IN  { LET c1 == [c EXCEPT !.io = @ + 1]
          IN  CASE r.kind = "Pending" ->
                     Return([c1 EXCEPT !.ev = @ \cup {"DataPending"}], Pending)
                [] r.kind = "Err" ->
                     Return([c1 EXCEPT !.ev = @ \cup {"DataIoErr"}], Err("Io"))
                [] r.kind = "Ready" /\ r.n = 0 ->
                     Return([c1 EXCEPT !.st = WriteEof,
                                       !.ev = @ \cup {"DataZero"}],
                            Err("WriteZero"))
                [] OTHER ->
                     LET c2 == [c1 EXCEPT
                                  !.wire = @ \o SubSeq(c.write_crypto,
                                                       off + 1, off + r.n),
                                  !.st = WriteData(len, off + r.n)]
                     IN  IF len = off + r.n
                         THEN IF flushing
                              THEN Return([c2 EXCEPT !.st = WriteInit],
                                          Ready(0))
                              ELSE Continue([c2 EXCEPT !.st = WriteInit])
                         ELSE Continue(c2)
          : r \in IoWrite(e, len - off) }

\* write_terminal that leaves Eof for Init when called.
write_terminal_eof_reset(c) ==
    {Return(IF c.st.tag = "Eof" THEN [c EXCEPT !.st = WriteInit] ELSE c,
            IF c.st.tag = "Eof" THEN Err("WriteZero")
            ELSE Err("InvalidData"))}

\* WriteState::Eof, WriteState::EncErr, the same in poll_write and poll_flush
write_terminal(c) ==
    {Return(c, IF c.st.tag = "Eof" THEN Err("WriteZero")
               ELSE Err("InvalidData"))}

\* One iteration of the loop of poll_write.
write_arm(e, c, src) ==
    CASE c.st.tag = "Init"       -> write_init(c)
      [] c.st.tag = "BufferData" -> write_buffer_data(c, src)
      [] c.st.tag = "WriteLen"   -> write_len(e, c)
      [] c.st.tag = "WriteData"  -> write_data(e, c, FALSE)
      [] OTHER                   -> write_terminal(c)

\* NoiseOutput::poll_write(cx, buf) with buf = src: every way it can end.
RECURSIVE poll_write(_, _, _)
poll_write(e, c, src) ==
    UNION { IF s.done THEN {s} ELSE poll_write(e, s.c, src)
            : s \in write_arm(e, c, src) }

\* flush_init that forwards to the transport's poll_flush, which may return
\* Ready(Ok(())), Pending or an error.
flush_init_flushes_io(c) ==
    {Return([c EXCEPT !.io = @ + 1], r) : r \in {Ready(0), Pending, Err("Io")}}

\* WriteState::Init in poll_flush
flush_init(c) == {Return(c, Ready(0))}

\* flush_buffer_data that has nothing to do for an empty accumulator.
flush_buffer_data_skips_empty(c) ==
    IF c.st.off = 0
    THEN {Return([c EXCEPT !.st = WriteInit], Ready(0))}
    ELSE LET c2 == write_encrypt(c, SubSeq(c.write, 1, c.st.off))
         IN  IF c2.st.tag = "EncErr"
             THEN {Return(c2, Err("InvalidData"))}
             ELSE {Continue(c2)}

\* WriteState::BufferData { off } in poll_flush
flush_buffer_data(c) ==
    LET c2 == write_encrypt(c, SubSeq(c.write, 1, c.st.off))
    IN  IF c2.st.tag = "EncErr"
        THEN {Return(c2, Err("InvalidData"))}
        ELSE {Continue(c2)}

\* One iteration of the loop of poll_flush.
flush_arm(e, c) ==
    CASE c.st.tag = "Init"       -> flush_init(c)
      [] c.st.tag = "BufferData" -> flush_buffer_data(c)
      [] c.st.tag = "WriteLen"   -> write_len(e, c)
      [] c.st.tag = "WriteData"  -> write_data(e, c, TRUE)
      [] OTHER                   -> write_terminal(c)

\* NoiseOutput::poll_flush(cx): every way it can end.
RECURSIVE poll_flush(_, _)
poll_flush(e, c) ==
    UNION { IF s.done THEN {s} ELSE poll_flush(e, s.c)
            : s \in flush_arm(e, c) }

----------------------------------------------------------------------------
(* The relay transport wrapper (protocols/relay/src/transport.rs).         *)
(* `relay` holds every dial and listen_on call made on (clones of) the     *)
(* wrapper with what it returned, the calls that reached the inner         *)
(* transport, the channel to the behaviour, and every message ever put     *)
(* into that channel.  The oneshot channel of a relayed dial is kept in    *)
(* the dial's record: tx says where its sender is, val what was sent.      *)

\* Calls of dial and listen_on in a behaviour.
MaxCalls == 2
\* The connections the behaviour can hand out, told apart by a label.
Conns == 1 .. MaxCalls

\* A Multiaddr is its sequence of protocols; "p2p-circuit" is
\* Protocol::P2pCircuit.
Addrs ==
    { <<"ip4", "tcp">>,
      <<"p2p-circuit">>,
      <<"ip4", "tcp", "p2p", "p2p-circuit", "p2p">> }

\* is_relay_address that looks at the last protocol of the address only.
is_relay_address_last_protocol(addr) == addr[Len(addr)] = "p2p-circuit"

\* fn is_relay_address(addr: &Multiaddr) -> bool
is_relay_address(addr) == \E k \in 1..Len(addr) : addr[k] = "p2p-circuit"

\* What the inner transport's dial and listen_on can return: Ok,
\* Err(TransportError::MultiaddrNotSupported), Err(TransportError::Other).
InnerResults == {"Ok", "MultiaddrNotSupported", "Other"}

\* The wrapper's result for the inner transport's result res: the inner
\* future or listener (EitherFuture::First, inner_listener: Some),
\* MultiaddrNotSupported unchanged, Other(err) as Other(EitherError::A(err)).
MapInner(res) ==
    CASE res = "Ok" -> "Inner"
      [] res = "MultiaddrNotSupported" -> "ErrNotSupported"
      [] OTHER -> "ErrOtherA"

InnerCall(op, by, addr, res) ==
    [op |-> op, by |-> by, addr |-> addr, res |-> res]

DialRec(addr, st) ==
    [addr |-> addr, st |-> st, tx |-> "none", val |-> 0, out |-> 0]

ListenRec(addr, st) == [addr |-> addr, st |-> st]

\* TransportToBehaviourMsg::DialRequest(addr, tx): tx is the oneshot sender
\* of dial number tx.
DialRequest(addr, tx) == [type |-> "DialRequest", addr |-> addr, tx |-> tx]

\* RelayTransportWrapper::new: no call made, both channels empty, the
\* behaviour holding the receiving end.
RelayInit ==
    [dials |-> <<>>, listens |-> <<>>, inner |-> <<>>,
     chan |-> <<>>, log |-> <<>>, rx_open |-> TRUE]

\* Transport::dial(self, addr), res being what the inner transport returns
\* if it is called.  For a relay address the result is the future
\* EitherFuture::Second, not yet polled.
dial(r, addr, res) ==
    IF ~is_relay_address(addr)
    THEN [r EXCEPT
            !.inner = Append(@, InnerCall("dial", Len(r.dials) + 1, addr, res)),
            !.dials = Append(@, DialRec(addr, MapInner(res)))]
    ELSE [r EXCEPT !.dials = Append(@, DialRec(addr, "Created"))]

\* Transport::listen_on(self, addr).  For a relay address the result is a
\* RelayListener without inner listener, holding the future that would send
\* ListenRequest(addr), not yet polled.
listen_on(r, addr, res) ==
    IF ~is_relay_address(addr)
    THEN [r EXCEPT
            !.inner = Append(@, InnerCall("listen_on", Len(r.listens) + 1,
                                          addr, res)),
            !.listens = Append(@, ListenRec(addr, MapInner(res)))]
    ELSE [r EXCEPT !.listens = Append(@, ListenRec(addr, "Relayed"))]

\* The first poll of the future of a relayed dial: it creates the oneshot
\* channel and sends DialRequest(addr, tx) on its clone of to_behaviour.
\* A clone has a slot of its own in the channel, so the message is queued at
\* once and the sender parks until the behaviour takes a message; if the
\* behaviour has dropped its receiver the send fails and unwrap() panics.
dial_send(r, i) ==
    IF r.rx_open
    THEN [r EXCEPT
            !.chan = Append(@, DialRequest(r.dials[i].addr, i)),
            !.log = Append(@, DialRequest(r.dials[i].addr, i)),
            !.dials[i].st = "Parked",
            !.dials[i].tx = "chan"]
    ELSE [r EXCEPT !.dials[i].st = "Panicked", !.dials[i].tx = "dropped"]

\* A later poll of that future, at `rx.await.unwrap()`: it resolves with the
\* value sent on its oneshot, and panics if the sender was dropped.
dial_await(r, i) ==
    IF r.dials[i].tx = "sent"
    THEN [r EXCEPT !.dials[i].st = "Done", !.dials[i].out = r.dials[i].val]
    ELSE [r EXCEPT !.dials[i].st = "Panicked"]

----------------------------------------------------------------------------
(* The incoming relay request                                              *)
(* (protocols/relay/src/protocol/incoming_relay_req.rs).                   *)
(* `req` follows one IncomingRelayReq and the receiver returned with it:   *)
(*   owner     who holds the request: "handler", the "future" returned by  *)
(*             fulfill or deny, or "gone"                                  *)
(*   op, pc    the future: "fulfill" / "deny"; where it stands             *)
(*   res       its result once it has completed                            *)
(*   notifier  the oneshot sender in the field _notifier                   *)
(*   rx        the oneshot receiver; resolved counts its resolutions       *)
(*   to_src    what has been written to the stream to the source           *)
(*   to_dst    what has been written to the stream to the destination      *)

\* Bytes relayed in each direction in a behaviour.
MaxRelay == 3

\* IncomingRelayReq::new: the request is handed to the handler, the receiver
\* to whoever waits for the request to go.
ReqInit ==
    [owner |-> "handler", op |-> "none", pc |-> "none", res |-> "none",
     notifier |-> "alive", rx |-> "pending", resolved |-> 0,
     to_src |-> <<>>, to_dst |-> <<>>]

\* The request is dropped: all its fields are, _notifier among them.
req_drop(q) == [q EXCEPT !.owner = "gone", !.notifier = "dropped"]

\* fulfill whose future takes only self.stream: the rest of the request,
\* _notifier included, is dropped when fulfill returns.
fulfill_captures_stream_only(q) ==
    [q EXCEPT !.owner = "future", !.op = "fulfill", !.pc = "created",
              !.notifier = "dropped"]

\* IncomingRelayReq::fulfill(mut self, dest_stream): encodes the status and
\* returns `async move { .. }.boxed()`, which has taken `self` whole.
fulfill(q) ==
    [q EXCEPT !.owner = "future", !.op = "fulfill", !.pc = "created"]

\* IncomingRelayReq::deny(mut self)
deny(q) ==
    [q EXCEPT !.owner = "future", !.op = "deny", !.pc = "created"]

\* The status message of the future: Status::Success in fulfill,
\* Status::HopCantDialDst in deny.
StatusOf(q) == IF q.op = "fulfill" THEN "Success" ELSE "HopCantDialDst"

\* The future returns r: `self`, still owned by the future (into_parts has
\* moved only self.stream out of it), is dropped.
req_complete(q, r) ==
    [q EXCEPT !.owner = "gone", !.pc = "done", !.res = r,
              !.notifier = "dropped"]

\* One poll of the future at `self.stream.send(msg_bytes.freeze()).await?`:
\* the sink suspends, fails (the future returns the error), or has taken
\* and flushed the message; then fulfill goes on to copy and deny returns
\* Ok(()).
req_send(q) ==
    LET sent_q == [q EXCEPT !.to_src = Append(@, StatusOf(q))]
    IN  { [q EXCEPT !.pc = "sending"],
          req_complete(q, "Err"),
          IF q.op = "fulfill" THEN [sent_q EXCEPT !.pc = "copying"]
          ELSE req_complete(sent_q, "Ok") }

\* One poll of the future at `copy_future.await`: a byte goes from the
\* source to the destination or back, or the copy ends, with Ok(()) or an
\* error.
req_copy(q) ==
    (IF Len(q.to_dst) < MaxRelay
     THEN {[q EXCEPT !.to_dst = Append(@, "data")]} ELSE {})
    \cup (IF Len(q.to_src) < MaxRelay + 1
          THEN {[q EXCEPT !.to_src = Append(@, "data")]} ELSE {})
    \cup {req_complete(q, "Ok"), req_complete(q, "Err")}

\* The future is dropped before it has completed, and what it owns with it.
req_drop_future(q) ==
    [q EXCEPT !.owner = "gone", !.pc = "dropped", !.notifier = "dropped"]

\* One poll of the receiver: it resolves (with Canceled, nothing is ever
\* sent on the notifier) once the sender has been dropped.
req_poll_rx(q) ==
    IF q.notifier = "dropped" /\ q.rx = "pending"
    THEN [q EXCEPT !.rx = "resolved", !.resolved = @ + 1]
    ELSE q

----------------------------------------------------------------------------
(* The system: a writing adapter, the transport, a reading adapter.        *)

\* What `last` records of a call that ended as step s: the operation, its
\* result, what happened during it ("Io": the transport was called, "Crypto":
\* the session was called, "CryptoAgain": it was called more than once) and
\* the ReadLen / WriteLen locals.
Call(op, s, crypto) ==
    [op |-> op, ret |-> s.ret,
     ev |-> s.c.ev \cup (IF s.c.io > 0 THEN {"Io"} ELSE {})
                   \cup (IF crypto > 0 THEN {"Crypto"} ELSE {})
                   \cup (IF crypto > 1 THEN {"CryptoAgain"} ELSE {}),
     loc |-> s.c.loc]

\* NoiseOutput::new: both state machines in Init, the buffer zeroed.
Init ==
    /\ read_state = ReadInit
    /\ write_state = WriteInit
    /\ buffer = [read         |-> Zeros(MAX_NOISE_PKG_LEN),
                 read_crypto  |-> Zeros(MAX_NOISE_PKG_LEN),
                 write        |-> Zeros(MAX_WRITE_BUF_LEN),
                 write_crypto |-> Zeros(2 * MAX_WRITE_BUF_LEN)]
    /\ session = [send |-> 0, recv |-> 0]
    /\ wire = <<>>
    /\ rpos = 0
    /\ tamper = [at |-> 0, val |-> 0]
    /\ closed = FALSE
    /\ nerr = 0
    /\ sent = <<>>
    /\ recvd = <<>>
    /\ encd = <<>>
    /\ last = [op |-> "new", ret |-> NoRet, ev |-> {}, loc |-> NoLoc]
    /\ relay = RelayInit
    /\ req = ReqInit

\* The byte stream as the reader's transport delivers it.
Stream ==
    [i \in 1..Len(wire) |-> IF tamper.at = i THEN tamper.val ELSE wire[i]]

ReadEnv(faults) ==
    [data |-> Stream, eof |-> closed, faulty |-> faults /\ nerr < MaxErr,
     suspends |-> TRUE]

WriteEnv(faults) ==
    [faulty |-> faults /\ nerr < MaxErr, refuse |-> faults,
     suspends |-> TRUE]

\* ReadCtx of an adapter whose read direction gives up once its write
\* direction has failed.
ReadCtx_fails_with_writer ==
    [st |-> IF write_state.tag \in {"Eof", "EncErr"} THEN ReadEof(FALSE)
            ELSE read_state,
     read |-> buffer.read,
     read_crypto |-> buffer.read_crypto, n |-> session.recv, pos |-> rpos,
     io |-> 0, dec |-> 0, ev |-> {}, loc |-> NoLoc]

ReadCtx ==
    [st |-> read_state, read |-> buffer.read,
     read_crypto |-> buffer.read_crypto, n |-> session.recv, pos |-> rpos,
     io |-> 0, dec |-> 0, ev |-> {}, loc |-> NoLoc]

WriteCtx ==
    [st |-> write_state, write |-> buffer.write,
     write_crypto |-> buffer.write_crypto, n |-> session.send, wire |-> wire,
     encd |-> encd, io |-> 0, enc |-> 0, ev |-> {}, loc |-> NoLoc]

\* The byte sequence B the writing caller sends: the adapter never looks at
\* plaintext values, so one sequence whose neighbouring bytes differ stands
\* for all of them.
Payload == [i \in 1..MaxBytes |-> i % ByteBase]

\* The slices the caller may offer next: the bytes of B not yet accepted.
Srcs == {SubSeq(Payload, Len(sent) + 1, Len(sent) + k) :
            k \in 0 .. Min(MaxSrc, MaxBytes - Len(sent))}

Failed(ret) == IF ret = Err("Io") THEN 1 ELSE 0

\* The reading adapter's caller calls poll_read with a non-empty slice of
\* dstLen bytes.
Read(faults) ==
    \E dstLen \in 1..MaxDst :
      \E s \in poll_read(ReadEnv(faults), ReadCtx, dstLen) :
        /\ read_state' = s.c.st
        /\ buffer' = [buffer EXCEPT !.read = s.c.read,
                                    !.read_crypto = s.c.read_crypto]
        /\ session' = [session EXCEPT !.recv = s.c.n]
        /\ rpos' = s.c.pos
        /\ recvd' = recvd \o s.out
        /\ nerr' = nerr + Failed(s.ret)
        /\ last' = Call("read", s, s.c.dec)
        /\ UNCHANGED <<write_state, wire, tamper, closed, sent, encd>>
        /\ UNCHANGED <<relay, req>>

WriteEffect(s) ==
    /\ write_state' = s.c.st
    /\ buffer' = [buffer EXCEPT !.write = s.c.write,
                                !.write_crypto = s.c.write_crypto]
    /\ session' = [session EXCEPT !.send = s.c.n]
    /\ wire' = s.c.wire
    /\ encd' = s.c.encd
    /\ nerr' = nerr + Failed(s.ret)
    /\ UNCHANGED <<relay, req>>

\* The writing adapter's caller calls poll_write with the slice src.
Write(faults) ==
    /\ ~closed
    /\ \E src \in Srcs :
         /\ \E s \in poll_write(WriteEnv(faults), WriteCtx, src) :
              /\ WriteEffect(s)
              /\ sent' = sent \o SubSeq(src, 1, s.ret.n)
              /\ last' = Call("write", s, s.c.enc)
              /\ UNCHANGED <<read_state, rpos, tamper, closed, recvd>>

\* The writing adapter's caller calls poll_flush.
Flush(faults) ==
    /\ ~closed
    /\ \E s \in poll_flush(WriteEnv(faults), WriteCtx) :
         /\ WriteEffect(s)
         /\ last' = Call("flush", s, s.c.enc)
         /\ UNCHANGED <<read_state, rpos, tamper, closed, sent, recvd>>

\* AsyncWrite::poll_close of the transport: suspend, fail or close.
IoClose(e) ==
    {Ready(0)}
    \cup (IF e.suspends THEN {Pending} ELSE {})
    \cup (IF e.faulty THEN {Err("Io")} ELSE {})

\* poll_close that flushes what is staged before it closes the transport.
poll_close_flushes_first(e, c) ==
    UNION { IF s.ret = Ready(0)
            THEN {Return(s.c, r) : r \in IoClose(e)}
            ELSE {s}
            : s \in poll_flush(e, c) }

\* NoiseOutput::poll_close(cx): forwards to the transport.
poll_close(e, c) == {Return(c, r) : r \in IoClose(e)}

\* The writing adapter's caller calls poll_close.
Close(faults) ==
    /\ ~closed
    /\ \E s \in poll_close(WriteEnv(faults), WriteCtx) :
         /\ WriteEffect(s)
         /\ closed' = (s.ret = Ready(0))
         /\ last' = Call("close", s, s.c.enc)
         /\ UNCHANGED <<read_state, rpos, tamper, sent, recvd>>

\* The network flips the low bit of the next byte it delivers to the reader
\* (once per behaviour).  Corrupting a byte earlier in flight is the same to
\* both adapters, which see the stream only at delivery.
Tamper ==
    /\ tamper.at = 0
    /\ rpos < Len(wire)
    /\ tamper' = [at |-> rpos + 1,
                  val |-> IF wire[rpos + 1] % 2 = 0 THEN wire[rpos + 1] + 1
                          ELSE wire[rpos + 1] - 1]
    /\ UNCHANGED <<read_state, write_state, buffer, session, wire, rpos, closed,
                   nerr, sent, recvd, encd, last, relay, req>>

ReadFaulty  == Read(TRUE)
WriteFaulty == Write(TRUE)
FlushFaulty == Flush(TRUE)
CloseFaulty == Close(TRUE)

\* Failing transports: partial transfers, suspension, I/O errors, a sink
\* that refuses bytes, a stream that ends anywhere.
Next == ReadFaulty \/ WriteFaulty \/ FlushFaulty \/ CloseFaulty

Spec == Init /\ [][Next]_vars

WriteAlone == Write(TRUE)
FlushAlone == Flush(TRUE)
CloseAlone == Close(TRUE)

\* The writing adapter alone over a failing transport: the peer does not
\* read (no read changes anything the writing adapter uses).
NextWriter == WriteAlone \/ FlushAlone \/ CloseAlone

SpecWriter == Init /\ [][NextWriter]_vars

ReadSound  == Read(FALSE)
WriteSound == Write(FALSE)
FlushSound == Flush(FALSE)
CloseSound == Close(FALSE)

\* Sound transports: partial transfers and suspension only.
NextSound == ReadSound \/ WriteSound \/ FlushSound \/ CloseSound

SpecSound == Init /\ [][NextSound]_vars

ReadNet  == Read(FALSE)
WriteNet == Write(FALSE)
FlushNet == Flush(FALSE)
CloseNet == Close(FALSE)

\* Sound transports over a network that may corrupt a byte in flight.
NextNet == ReadNet \/ WriteNet \/ FlushNet \/ CloseNet \/ Tamper

SpecNet == Init /\ [][NextNet]_vars

----------------------------------------------------------------------------
(* The relay transport wrapper with its callers and the behaviour          *)

noise_vars == <<read_state, write_state, buffer, session, wire, rpos, tamper,
                closed, nerr, sent, recvd, encd, last>>

\* A caller dials addr on a clone of the wrapper.
Dial ==
    /\ Len(relay.dials) + Len(relay.listens) < MaxCalls
    /\ \E addr \in Addrs, res \in InnerResults :
         relay' = dial(relay, addr, res)
    /\ UNCHANGED <<noise_vars, req>>

\* A caller calls listen_on(addr) on a clone of the wrapper.
ListenOn ==
    /\ Len(relay.dials) + Len(relay.listens) < MaxCalls
    /\ \E addr \in Addrs, res \in InnerResults :
         relay' = listen_on(relay, addr, res)
    /\ UNCHANGED <<noise_vars, req>>

\* The future of a relayed dial is polled and makes a step.
PollDial ==
    /\ \E i \in 1..Len(relay.dials) :
         \/ /\ relay.dials[i].st = "Created"
            /\ relay' = dial_send(relay, i)
         \/ /\ relay.dials[i].st = "Awaiting"
            /\ relay.dials[i].tx \in {"sent", "dropped"}
            /\ relay' = dial_await(relay, i)
    /\ UNCHANGED <<noise_vars, req>>

\* The caller drops the future of a relayed dial, and with it the oneshot
\* receiver if there is one.
DropDial ==
    /\ \E i \in 1..Len(relay.dials) :
         /\ relay.dials[i].st \in {"Created", "Parked", "Awaiting"}
         /\ relay' = [relay EXCEPT !.dials[i].st = "Dropped"]
    /\ UNCHANGED <<noise_vars, req>>

\* RelayListener::poll_next: unimplemented!().
PollNext ==
    /\ \E i \in 1..Len(relay.listens) :
         /\ relay.listens[i].st = "Relayed"
         /\ relay' = [relay EXCEPT !.listens[i].st = "Panicked"]
    /\ UNCHANGED <<noise_vars, req>>

\* The behaviour takes the next message from the channel; the sender that
\* parked on it may go on.
BehaviourRecv ==
    /\ relay.rx_open /\ relay.chan # <<>>
    /\ LET m == Head(relay.chan)
       IN  relay' = [relay EXCEPT
                       !.chan = Tail(@),
                       !.dials[m.tx].tx = "held",
                       !.dials[m.tx].st = IF @ = "Parked" THEN "Awaiting"
                                          ELSE @]
    /\ UNCHANGED <<noise_vars, req>>

\* The behaviour sends a connection on a oneshot sender it holds; the value
\* is lost if the dial's future is gone.
BehaviourReply ==
    /\ \E i \in 1..Len(relay.dials), conn \in Conns :
         /\ relay.dials[i].tx = "held"
         /\ relay' = IF relay.dials[i].st = "Awaiting"
                     THEN [relay EXCEPT !.dials[i].tx = "sent",
                                        !.dials[i].val = conn]
                     ELSE [relay EXCEPT !.dials[i].tx = "dropped"]
    /\ UNCHANGED <<noise_vars, req>>

\* The behaviour drops a oneshot sender it holds without sending.
BehaviourDropSender ==
    /\ \E i \in 1..Len(relay.dials) :
         /\ relay.dials[i].tx = "held"
         /\ relay' = [relay EXCEPT !.dials[i].tx = "dropped"]
    /\ UNCHANGED <<noise_vars, req>>

\* The behaviour drops its receiver: the channel is closed, the messages in
\* it are dropped with the oneshot senders they carry, and every parked
\* sender may go on.
BehaviourDropReceiver ==
    /\ relay.rx_open
    /\ relay' = [relay EXCEPT
                   !.rx_open = FALSE,
                   !.chan = <<>>,
                   !.dials = [i \in 1..Len(relay.dials) |->
                                IF relay.dials[i].tx = "chan"
                                THEN [relay.dials[i] EXCEPT
                                        !.tx = "dropped",
                                        !.st = IF @ = "Parked" THEN "Awaiting"
                                               ELSE @]
                                ELSE relay.dials[i]]]
    /\ UNCHANGED <<noise_vars, req>>

NextRelay ==
    \/ Dial \/ ListenOn \/ PollDial \/ DropDial \/ PollNext
    \/ BehaviourRecv \/ BehaviourReply \/ BehaviourDropSender
    \/ BehaviourDropReceiver

SpecRelay == Init /\ [][NextRelay]_vars

----------------------------------------------------------------------------
(* The incoming relay request with its handler and the receiver's holder   *)

\* The handler drops the request without answering it.
ReqDrop ==
    /\ req.owner = "handler"
    /\ req' = req_drop(req)
    /\ UNCHANGED <<noise_vars, relay>>

\* The handler accepts the request.
Fulfill ==
    /\ req.owner = "handler"
    /\ req' = fulfill(req)
    /\ UNCHANGED <<noise_vars, relay>>

\* The handler refuses the request.
Deny ==
    /\ req.owner = "handler"
    /\ req' = deny(req)
    /\ UNCHANGED <<noise_vars, relay>>

\* The future returned by fulfill or deny is polled and makes a step.
PollFuture ==
    /\ req.owner = "future"
    /\ \/ req.pc \in {"created", "sending"} /\ req' \in req_send(req)
       \/ req.pc = "copying" /\ req' \in req_copy(req)
    /\ UNCHANGED <<noise_vars, relay>>

\* The future returned by fulfill or deny is dropped before it completed.
DropFuture ==
    /\ req.owner = "future"
    /\ req' = req_drop_future(req)
    /\ UNCHANGED <<noise_vars, relay>>

\* The receiver is polled.
PollRx ==
    /\ req.rx = "pending"
    /\ req' = req_poll_rx(req)
    /\ UNCHANGED <<noise_vars, relay>>

NextReq ==
    ReqDrop \/ Fulfill \/ Deny \/ PollFuture \/ DropFuture \/ PollRx

SpecRelayReq == Init /\ [][NextReq]_vars

----------------------------------------------------------------------------
(* Properties *)

\* Plaintext decrypted and not yet handed to the reading caller.
Staged ==
    IF read_state.tag = "CopyData"
    THEN SubSeq(buffer.read_crypto, read_state.off + 1, read_state.len)
    ELSE <<>>

\* The frame that encrypting `payload` under nonce n puts into encd.
Frame(n, payload) ==
    to_be_bytes(Len(payload) + TAGLEN) \o Seal(n, payload)

\* C1: round trip.  Over sound transports, whatever the split of B into
\* write calls and the placement of flushes, the bytes returned by the peer's
\* reads are at every moment a prefix of the bytes accepted by the writes (in
\* order, nothing inserted or duplicated); when the writer is flushed
\* (state Init) every frame encrypted is on the wire in full, and once the reader
\* has taken every wire byte it stands between two frames and the bytes it
\* has returned, followed by the decrypted bytes it still holds, are exactly
\* the bytes written.
C1_RoundTrip ==
    /\ IsPrefix(recvd, sent)
    /\ write_state.tag = "Init" => wire = encd
    /\ (write_state.tag = "Init" /\ rpos = Len(wire)) =>
          /\ recvd \o Staged = sent
          /\ read_state.tag \in {"Init", "ReadLen", "CopyData", "Eof"}
          /\ read_state.tag = "ReadLen" => read_state.off = 0
          /\ read_state.tag = "Eof" => read_state.ok

\* C1 witness: all of B was written in two frames, flushed, and read back.
C1_Witness ==
    /\ sent = Payload /\ recvd = Payload
    /\ write_state.tag = "Init" /\ session.send = 2
    /\ rpos = Len(wire) /\ last.op = "read"

\* C2: a read (its destination is never empty here) returns Ready(0) only
\* when the read state is Eof(clean); in particular a frame that decrypts to
\* zero bytes does not make the call return.
C2_ZeroReadOnlyAtEof ==
    (last.op = "read" /\ last.ret = Ready(0)) => read_state = ReadEof(TRUE)

\* C3: a zero-byte transport read inside the length prefix is a clean EOF
\* (Ready(0), Eof(clean)) only before the first prefix byte; after one prefix
\* byte it is Err(UnexpectedEof) and Eof(unexpected).
C3_EofInsidePrefix ==
    last.op = "read" =>
       /\ "LenEof0" \in last.ev =>
             last.ret = Ready(0) /\ read_state = ReadEof(TRUE)
       /\ "LenEofMid" \in last.ev =>
             last.ret = Err("UnexpectedEof") /\ read_state = ReadEof(FALSE)

\* C4: when a read returns a transport error, the read state holds the exact
\* position reached: if the error came while reading the length prefix, the
\* state's (buf, off) are the prefix bytes taken from the transport so far.
C4_ReadErrorKeepsPosition ==
    (last.op = "read" /\ "LenIoErr" \in last.ev) =>
       /\ last.ret = Err("Io")
       /\ read_state.tag = "ReadLen"
       /\ read_state.buf = last.loc.buf
       /\ read_state.off = last.loc.off

\* C5: when a write or flush returns a transport error, the write state holds
\* the exact position reached: if the error came while writing the length
\* prefix, the state's off counts the prefix bytes the transport accepted; and
\* the wire always holds a prefix of the frames encrypted, in order.
C5_WriteErrorKeepsPosition ==
    /\ IsPrefix(wire, encd)
    /\ (last.op \in {"write", "flush"} /\ "LenIoErr" \in last.ev) =>
          /\ last.ret = Err("Io")
          /\ write_state.tag = "WriteLen"
          /\ write_state.off = last.loc.off

----------------------------------------------------------------------------
(* Suspension *)

\* The transports of the current state when they never return Pending.
ReadEnvNoPending  == [ReadEnv(FALSE) EXCEPT !.suspends = FALSE]
WriteEnvNoPending == [WriteEnv(FALSE) EXCEPT !.suspends = FALSE]

\* The context in which the next call starts after a call ended in c.
Resume(c) == [c EXCEPT !.io = 0, !.ev = {}, !.loc = NoLoc]

\* What a caller and the peer can observe of a finished read call, and of a
\* finished write or flush call.
ReadObs(s) ==
    <<s.ret, s.out, s.c.st, s.c.pos, s.c.n, s.c.read, s.c.read_crypto>>
WriteObs(s) ==
    <<s.ret, s.c.st, s.c.wire, s.c.n, s.c.write, s.c.write_crypto>>

\* C6: suspension transparency.  Whenever a read, write or flush can return
\* Pending (wherever the transport suspends, also inside the length prefix
\* or the ciphertext), calling it again ends, against a transport that no
\* longer suspends, only in results (return value, bytes delivered, bytes on
\* the wire, state, buffers) that the same call would have reached from the
\* state before against a transport that never suspended.
C6_SuspensionTransparent ==
    /\ \A dstLen \in 1..MaxDst :
         \A s \in poll_read(ReadEnv(FALSE), ReadCtx, dstLen) :
            s.ret = Pending =>
               {ReadObs(t) : t \in poll_read(ReadEnvNoPending,
                                             [Resume(s.c) EXCEPT !.dec = 0],
                                             dstLen)}
               \subseteq
               {ReadObs(t) : t \in poll_read(ReadEnvNoPending, ReadCtx, dstLen)}
    /\ \A src \in Srcs :
         \A s \in poll_write(WriteEnv(FALSE), WriteCtx, src) :
            s.ret = Pending =>
               {WriteObs(t) : t \in poll_write(WriteEnvNoPending,
                                               [Resume(s.c) EXCEPT !.enc = 0],
                                               src)}
               \subseteq
               {WriteObs(t) : t \in poll_write(WriteEnvNoPending, WriteCtx, src)}
    /\ \A s \in poll_flush(WriteEnv(FALSE), WriteCtx) :
         s.ret = Pending =>
            {WriteObs(t) : t \in poll_flush(WriteEnvNoPending,
                                            [Resume(s.c) EXCEPT !.enc = 0])}
            \subseteq
            {WriteObs(t) : t \in poll_flush(WriteEnvNoPending, WriteCtx)}

\* C6 witness: a read suspended after one byte of the length prefix while the
\* writer is suspended inside a ciphertext.
C6_Witness ==
    /\ last.op = "read" /\ last.ret = Pending
    /\ read_state.tag = "ReadLen" /\ read_state.off = 1
    /\ write_state.tag = "WriteData" /\ write_state.off > 0

----------------------------------------------------------------------------
(* Terminal states *)

ReadTerminal  == read_state.tag \in {"Eof", "DecErr"}
WriteTerminal == write_state.tag \in {"Eof", "EncErr"}

\* The step is a call of poll_read; of poll_write or poll_flush.
ReadCalled  == last' # last /\ last'.op = "read"
WriteCalled == last' # last /\ last'.op \in {"write", "flush"}

\* C7: when the decryption of an inbound frame fails, the read returns
\* Err(InvalidData) with the read state already DecErr, the failing call
\* returns no byte, and no later step returns any byte to the caller.
C7_DecryptFailureHidesFrame ==
    /\ []((last.op = "read" /\ "DecFail" \in last.ev) =>
             (last.ret = Err("InvalidData") /\ read_state = DecErr))
    /\ [][(read_state'.tag = "DecErr") =>
             (recvd' = recvd /\ (ReadCalled => last'.ret = Err("InvalidData")))
         ]_vars

\* C7 witness: a frame failed to decrypt after its candidate plaintext was
\* written to read_crypto, and a later read was refused.
C7_Witness ==
    /\ read_state = DecErr
    /\ last.op = "read" /\ last.ret = Err("InvalidData") /\ last.ev = {}
    /\ buffer.read_crypto # Zeros(MAX_NOISE_PKG_LEN)
    /\ recvd = <<>>

\* C8: the read terminal states are absorbing.  From Eof(clean),
\* Eof(unexpected) or DecErr no step changes the read state, the reader's
\* stream position, its nonce, its two buffers or the bytes returned; a read
\* call returns Ready(0), Err(UnexpectedEof), Err(InvalidData) respectively,
\* without calling the transport or the session.
C8_ReadTerminalAbsorbing ==
    [][ReadTerminal =>
          /\ read_state' = read_state
          /\ rpos' = rpos
          /\ session'.recv = session.recv
          /\ buffer'.read = buffer.read
          /\ buffer'.read_crypto = buffer.read_crypto
          /\ recvd' = recvd
          /\ ReadCalled =>
                /\ last'.ret = CASE read_state.tag = "DecErr" ->
                                      Err("InvalidData")
                                 [] read_state.ok -> Ready(0)
                                 [] OTHER -> Err("UnexpectedEof")
                /\ last'.ev = {}
      ]_vars

\* C8 witness: a read was called again after an unexpected end of stream.
C8_Witness ==
    /\ read_state = ReadEof(FALSE)
    /\ last.op = "read" /\ last.ret = Err("UnexpectedEof") /\ last.ev = {}

\* C9: the write terminal states are absorbing for write and flush.  A call
\* in which the transport accepted 0 bytes (of the length prefix or of the
\* ciphertext) ends in Eof with Err(WriteZero); a call in which encryption
\* failed ends in EncErr with Err(InvalidData); from Eof or EncErr no step
\* changes the write state, the wire, the nonce or the write buffers, and
\* every write and flush returns Err(WriteZero), Err(InvalidData)
\* respectively, without calling the transport or the session.
C9_WriteTerminalAbsorbing ==
    /\ [](last.op \in {"write", "flush"} =>
            /\ (last.ev \cap {"LenZero", "DataZero"} # {}) =>
                  (write_state = WriteEof /\ last.ret = Err("WriteZero"))
            /\ "EncFail" \in last.ev =>
                  (write_state = EncErr /\ last.ret = Err("InvalidData")))
    /\ [][WriteTerminal =>
            /\ write_state' = write_state
            /\ wire' = wire
            /\ encd' = encd
            /\ session'.send = session.send
            /\ buffer'.write = buffer.write
            /\ buffer'.write_crypto = buffer.write_crypto
            /\ WriteCalled =>
                  /\ last'.ret = IF write_state.tag = "Eof"
                                 THEN Err("WriteZero")
                                 ELSE Err("InvalidData")
                  /\ last'.ev = {}
        ]_vars

\* C9 witness: a flush was refused after the sink had accepted 0 bytes of a
\* ciphertext.
C9_Witness ==
    /\ write_state = WriteEof
    /\ last.op = "flush" /\ last.ret = Err("WriteZero") /\ last.ev = {}
    /\ Len(wire) > 2

----------------------------------------------------------------------------
(* Filling the accumulator *)

\* The step is a write call that started in Init and accepted exactly
\* MAX_WRITE_BUF_LEN bytes.
FullWriteFromInit ==
    /\ write_state = WriteInit
    /\ last'.op = "write"
    /\ last'.ret = Ready(MAX_WRITE_BUF_LEN)

\* The bytes the step added to the bytes accepted.
Accepted == SubSeq(sent', Len(sent) + 1, Len(sent'))

\* C10 as stated: a write of exactly MAX_WRITE_BUF_LEN bytes to a writer in
\* Init puts one complete frame on the wire and leaves the write state Init.
C10_FullWritePutsFrameOnWire ==
    [][FullWriteFromInit =>
          /\ write_state' = WriteInit
          /\ wire' = wire \o Frame(session.send, Accepted)
      ]_vars

\* C10 as amended: such a write encrypts the bytes as one frame and stages
\* it without handing a byte to the transport: the wire is unchanged and the
\* write state is WriteLen with the frame's length and off = 0, the frame in
\* write_crypto; the flush that then returns Ready(Ok) is what puts exactly
\* that frame on the wire and leaves the write state Init.
C10_FullWriteStagesFrame ==
    /\ [][FullWriteFromInit =>
             /\ wire' = wire
             /\ write_state' = WriteLen(MAX_WRITE_BUF_LEN + TAGLEN,
                                 to_be_bytes(MAX_WRITE_BUF_LEN + TAGLEN), 0)
             /\ session'.send = session.send + 1
             /\ encd' = encd \o Frame(session.send, Accepted)
             /\ SubSeq(buffer'.write_crypto, 1, MAX_WRITE_BUF_LEN + TAGLEN)
                   = Seal(session.send, Accepted)
         ]_vars
    /\ [][(/\ write_state.tag = "WriteLen" /\ write_state.off = 0
            /\ write_state.len = MAX_WRITE_BUF_LEN + TAGLEN
            /\ last'.op = "flush" /\ last'.ret = Ready(0)) =>
             /\ write_state' = WriteInit
             /\ wire' = wire \o to_be_bytes(write_state.len)
                         \o SubSeq(buffer.write_crypto, 1, write_state.len)
             /\ session'.send = session.send
         ]_vars

\* C10 witness: the first write accepted MAX_WRITE_BUF_LEN bytes; the frame
\* is staged and the wire still empty.
C10_Witness ==
    /\ last.op = "write" /\ last.ret = Ready(MAX_WRITE_BUF_LEN)
    /\ sent = SubSeq(Payload, 1, MAX_WRITE_BUF_LEN)
    /\ write_state.tag = "WriteLen" /\ write_state.off = 0
    /\ wire = <<>> /\ encd = Frame(0, sent)

----------------------------------------------------------------------------
(* One byte more than the accumulator holds *)

\* A transport that takes every byte it is offered, in pieces of any size,
\* and neither suspends nor fails nor refuses.
WriteEnvAccepting ==
    [faulty |-> FALSE, refuse |-> FALSE, suspends |-> FALSE]

\* The first write call accepted exactly MAX_WRITE_BUF_LEN bytes from Init
\* and nothing has been handed to the transport since.
AfterFullFirstWrite ==
    /\ Len(sent) = MAX_WRITE_BUF_LEN
    /\ session.send = 1
    /\ write_state.tag = "WriteLen" /\ write_state.off = 0
    /\ wire = <<>>

\* C11: after a first write that accepted MAX_WRITE_BUF_LEN bytes, a second
\* write offered the one remaining byte, over a transport that accepts all
\* bytes, returns Ready(1), has put exactly one frame carrying the first
\* MAX_WRITE_BUF_LEN bytes on the wire, and leaves the write state
\* BufferData{off = 1} with the last byte in the accumulator, not encrypted
\* and not on the wire.
C11_OneByteOverLeavesOneStaged ==
    /\ [](AfterFullFirstWrite =>
            \A s \in poll_write(WriteEnvAccepting, WriteCtx,
                                <<Payload[MAX_WRITE_BUF_LEN + 1]>>) :
               /\ s.ret = Ready(1)
               /\ s.c.st = BufferData(1)
               /\ s.c.wire = Frame(0, sent)
               /\ s.c.write[1] = Payload[MAX_WRITE_BUF_LEN + 1]
               /\ s.c.n = 1 /\ s.c.enc = 0)
    /\ [][(AfterFullFirstWrite /\ last'.op = "write" /\ last'.ret = Ready(1)) =>
             /\ write_state' = BufferData(1)
             /\ wire' = Frame(0, sent)
             /\ encd' = wire'
             /\ sent' = sent \o <<Payload[MAX_WRITE_BUF_LEN + 1]>>
             /\ buffer'.write[1] = Payload[MAX_WRITE_BUF_LEN + 1]
         ]_vars

\* C11 witness: the second write has accepted the remaining byte; one frame
\* is on the wire and the byte is staged.
C11_Witness ==
    /\ last.op = "write" /\ last.ret = Ready(1)
    /\ Len(sent) = MAX_WRITE_BUF_LEN + 1
    /\ write_state = BufferData(1)
    /\ wire = Frame(0, SubSeq(sent, 1, MAX_WRITE_BUF_LEN))
    /\ session.send = 1

----------------------------------------------------------------------------
(* The buffering step of poll_write *)

\* The offset at which a write call starting in the current state reaches
\* BufferData: the stored one, or 0 when it comes through Init.
BufferOff == IF write_state.tag = "BufferData" THEN write_state.off ELSE 0

\* What is left to hand to the transport of the frame staged in the current
\* state.
Unsent ==
    CASE write_state.tag = "WriteLen" ->
            SubSeq(write_state.buf, write_state.off + 1, 2)
            \o SubSeq(buffer.write_crypto, 1, write_state.len)
      [] write_state.tag = "WriteData" ->
            SubSeq(buffer.write_crypto, write_state.off + 1, write_state.len)
      [] OTHER -> <<>>

\* C12: a write call that reaches BufferData{off} copies exactly
\* n = min(MAX_WRITE_BUF_LEN - off, src.len()) bytes of src to the accumulator
\* at off and returns at once: Ready(n), or Err(InvalidData) with EncErr if
\* the accumulator became full and encryption failed.  It encrypts exactly
\* when the accumulator became full (once), calls the transport only to drive
\* out a frame staged before the call, never after the copy: no byte of the
\* frame just encrypted is on the wire and the state is WriteLen{off = 0} for
\* it, or BufferData{off + n} when the accumulator is not full.
C12_WriteReturnsAfterBuffering ==
    \A src \in Srcs :
      \A s \in poll_write(WriteEnv(TRUE), WriteCtx, src) :
        LET n == Min(MAX_WRITE_BUF_LEN - BufferOff, Len(src))
            full == BufferOff + n = MAX_WRITE_BUF_LEN
        IN  /\ s.ret.kind = "Ready" =>
                 /\ s.ret.n = n
                 /\ s.c.write = Patch(buffer.write, BufferOff, SubSeq(src, 1, n))
                 /\ s.c.enc = IF full THEN 1 ELSE 0
                 /\ s.c.st = IF full
                             THEN WriteLen(MAX_WRITE_BUF_LEN + TAGLEN,
                                     to_be_bytes(MAX_WRITE_BUF_LEN + TAGLEN), 0)
                             ELSE BufferData(BufferOff + n)
                 /\ s.c.wire = wire \o Unsent
                 /\ write_state.tag \in {"Init", "BufferData"} => s.c.io = 0
                 /\ s.c.encd = encd \o (IF full
                                        THEN Frame(session.send, s.c.write)
                                        ELSE <<>>)
            /\ "EncFail" \in s.c.ev =>
                 /\ s.ret = Err("InvalidData") /\ s.c.st = EncErr
                 /\ full /\ s.c.enc = 1
                 /\ s.c.wire = wire \o Unsent
                 /\ s.c.write = Patch(buffer.write, BufferOff, SubSeq(src, 1, n))

\* C12 witness: one write call drove out the frame staged before it, then
\* filled the accumulator, encrypted it and returned with the new frame
\* staged and nothing of it on the wire.
C12_Witness ==
    /\ last.op = "write" /\ last.ret = Ready(MAX_WRITE_BUF_LEN)
    /\ {"Io", "Crypto"} \subseteq last.ev
    /\ write_state.tag = "WriteLen" /\ write_state.off = 0
    /\ session.send = 2
    /\ wire = Frame(0, <<Payload[1]>>)

----------------------------------------------------------------------------
(* Flush *)

\* A byte sequence read as the peer reads it from nonce n on: whether it is a
\* sequence of complete frames (two-byte length, then that many bytes of a
\* ciphertext that authenticates), and the plaintext those frames carry.
RECURSIVE Parse(_, _)
Parse(w, n) ==
    IF w = <<>> THEN [ok |-> TRUE, plain |-> <<>>]
    ELSE IF Len(w) < 2 \/ Len(w) < 2 + from_be_bytes(SubSeq(w, 1, 2))
    THEN [ok |-> FALSE, plain |-> <<>>]
    ELSE LET len == from_be_bytes(SubSeq(w, 1, 2))
             m == read_message(n, SubSeq(w, 3, 2 + len), MAX_NOISE_PKG_LEN)
             rest == Parse(SubSeq(w, 3 + len, Len(w)), n + 1)
         IN  IF m.ok
             THEN [ok |-> rest.ok, plain |-> m.out \o rest.plain]
             ELSE [ok |-> FALSE, plain |-> <<>>]

\* C13: whenever flush has returned Ready(Ok(())) the write state is Init and
\* the bytes handed to the transport are a sequence of complete frames that
\* carry exactly the plaintext bytes accepted by the write calls so far; and
\* a flush called in Init returns Ready(Ok(())) without encrypting and
\* without calling the transport.
C13_FlushMeansOnWire ==
    /\ (last.op = "flush" /\ last.ret = Ready(0)) =>
          /\ write_state = WriteInit
          /\ Parse(wire, 0).ok
          /\ Parse(wire, 0).plain = sent
    /\ write_state = WriteInit =>
          \A s \in poll_flush(WriteEnv(TRUE), WriteCtx) :
             /\ s.ret = Ready(0)
             /\ s.c.st = WriteInit
             /\ s.c.enc = 0 /\ s.c.io = 0
             /\ s.c.wire = wire /\ s.c.n = session.send

----------------------------------------------------------------------------
(* Wire format *)

\* w is a sequence of frames encrypted under the nonces n, n + 1, ...: each
\* a two-byte big-endian length equal to the length of the ciphertext that
\* follows it, the ciphertext being the encryption of 0..MAX_WRITE_BUF_LEN
\* plaintext bytes.
RECURSIVE FrameSeq(_, _)
FrameSeq(w, n) ==
    \/ w = <<>>
    \/ /\ Len(w) >= 2
       /\ LET len == from_be_bytes(SubSeq(w, 1, 2))
              c == SubSeq(w, 3, 2 + len)
          IN  /\ len <= MAX_NOISE_PKG_LEN
              /\ len >= TAGLEN /\ len - TAGLEN <= MAX_WRITE_BUF_LEN
              /\ Len(w) >= 2 + len
              /\ c = Seal(n, Open(n, c))
              /\ FrameSeq(SubSeq(w, 3 + len, Len(w)), n + 1)

\* C14: the frames the adapter has produced, in encryption order, are
\* well-formed (exact two-byte big-endian length, not truncated, ciphertext
\* of 0..MAX_WRITE_BUF_LEN plaintext bytes), and in every reachable state the
\* bytes handed to the transport are a prefix of that sequence of frames.
C14_WireIsFrames ==
    /\ FrameSeq(encd, 0)
    /\ IsPrefix(wire, encd)

----------------------------------------------------------------------------
(* The two directions *)

\* The step is a call of poll_read; of poll_write or poll_flush.
ReadStep       == last'.op = "read" /\ tamper' = tamper
WriteFlushStep == last'.op \in {"write", "flush"} /\ tamper' = tamper

\* What the read direction and the write direction own.
ReadSide ==
    <<read_state, buffer.read, buffer.read_crypto, session.recv, rpos, recvd>>
WriteSide ==
    <<write_state, buffer.write, buffer.write_crypto, session.send, wire,
      encd, sent>>

\* C15: the two directions are independent.  A read changes nothing of the
\* write direction (state, accumulator, staged ciphertext, sending nonce,
\* bytes on the wire); a write or flush changes nothing of the read direction.
\* A direction enters a terminal state only through its own failure in that
\* very call (end of stream or failed decryption for reads; a transport that
\* accepts 0 bytes or failed encryption for writes), whatever the state of
\* the other direction, terminal or not.
C15_DirectionsIndependent ==
    [][/\ ReadStep => WriteSide' = WriteSide
       /\ WriteFlushStep => ReadSide' = ReadSide
       /\ (ReadStep /\ ~ReadTerminal /\ ReadTerminal') =>
             last'.ev \cap {"LenEof0", "LenEofMid", "DataEof", "DecFail"} # {}
       /\ (WriteFlushStep /\ ~WriteTerminal /\ WriteTerminal') =>
             last'.ev \cap {"LenZero", "DataZero", "EncFail"} # {}
      ]_vars

\* C15 witness: the write direction has failed (EncErr) and a later read
\* still received a frame, decrypted it and returned its bytes.
C15_Witness ==
    /\ write_state = EncErr
    /\ last.op = "read" /\ last.ret.kind = "Ready" /\ last.ret.n > 0
    /\ "Crypto" \in last.ev
    /\ ~ReadTerminal

----------------------------------------------------------------------------
(* Close *)

\* The step is a call of poll_close.
CloseStep == last'.op = "close" /\ tamper' = tamper

\* C16: close forwards to the transport's close in every state and does
\* nothing else.  Its result is the transport's (Ready, Pending or the
\* transport's error), also in the terminal states; it does not call the
\* session, hands no byte to the transport, and leaves the read state, the
\* write state, the four buffers and both nonces as they were.
C16_CloseOnlyForwards ==
    [][CloseStep =>
          /\ last'.ret \in IoClose(WriteEnv(TRUE))
          /\ closed' = (last'.ret = Ready(0))
          /\ last'.ev = {}
          /\ read_state' = read_state
          /\ write_state' = write_state
          /\ buffer' = buffer
          /\ session' = session
          /\ wire' = wire /\ encd' = encd
          /\ sent' = sent /\ recvd' = recvd /\ rpos' = rpos
      ]_vars

\* C16 witness: close succeeded while a frame was partly written and the
\* reader was in the middle of it; what was staged stayed staged.
C16_Witness ==
    /\ last.op = "close" /\ last.ret = Ready(0) /\ closed
    /\ write_state.tag = "WriteData" /\ write_state.off > 0
    /\ read_state.tag = "ReadData"
    /\ Len(wire) < Len(encd)

----------------------------------------------------------------------------
(* End of stream inside a ciphertext *)

\* The reader's transport when the stream ends exactly where the reader
\* stands: every further transport read returns 0 bytes.
ReadEnvEnded ==
    [data |-> SubSeq(Stream, 1, rpos), eof |-> TRUE, faulty |-> FALSE,
     suspends |-> FALSE]

\* C17: a zero-byte transport read while a frame's ciphertext is being read
\* makes the read return Err(UnexpectedEof) with the read state already
\* Eof(unexpected), and no decryption is attempted in that call.  From every
\* reachable ReadData{len, off} (off < len, off = 0 included) a read over a
\* stream that ends there can end in no other way, delivers nothing, and
\* leaves the receiving nonce and the plaintext buffer untouched.
C17_EofInCiphertext ==
    /\ (last.op = "read" /\ "DataEof" \in last.ev) =>
          /\ last.ret = Err("UnexpectedEof")
          /\ read_state = ReadEof(FALSE)
          /\ "Crypto" \notin last.ev
    /\ read_state.tag = "ReadData" =>
          /\ read_state.off < read_state.len
          /\ \A dstLen \in 1..MaxDst :
               \A s \in poll_read(ReadEnvEnded, ReadCtx, dstLen) :
                  /\ s.ret = Err("UnexpectedEof")
                  /\ s.c.st = ReadEof(FALSE)
                  /\ s.c.dec = 0 /\ s.c.n = session.recv
                  /\ s.c.read_crypto = buffer.read_crypto
                  /\ s.out = <<>>

\* C17 witness: the stream ended right after a length prefix (off = 0) and
\* the read returned Err(UnexpectedEof).
C17_Witness ==
    /\ last.op = "read" /\ "DataEof" \in last.ev
    /\ last.ret = Err("UnexpectedEof")
    /\ read_state = ReadEof(FALSE)
    /\ closed /\ rpos = 2 /\ Len(wire) = 2

----------------------------------------------------------------------------
(* Calls of the session *)

\* What a read call does with the session.
ReadCrypto ==
    /\ "CryptoAgain" \notin last'.ev
    /\ "Crypto" \in last'.ev <=>
          (session'.recv = session.recv + 1 \/ "DecFail" \in last'.ev)
    /\ "Crypto" \notin last'.ev => session'.recv = session.recv
    /\ "DecFail" \in last'.ev =>
          (session'.recv = session.recv /\ read_state' = DecErr)
    /\ "Crypto" \in last'.ev =>
          /\ read_state.tag \in {"Init", "ReadLen", "ReadData"}
          /\ rpos' > rpos
          /\ read_state'.tag \in {"CopyData", "ReadLen", "DecErr"}
    /\ read_state.tag = "ReadData" =>
          ("Crypto" \in last'.ev <=>
              rpos' = rpos + read_state.len - read_state.off)
    /\ read_state = DecErr => ("Crypto" \notin last'.ev /\ read_state' = DecErr)

\* What a write or flush call does with the session.
WriteCrypto ==
    /\ "CryptoAgain" \notin last'.ev
    /\ "Crypto" \in last'.ev <=>
          (session'.send = session.send + 1 \/ "EncFail" \in last'.ev)
    /\ "Crypto" \notin last'.ev => (session'.send = session.send /\ encd' = encd)
    /\ "EncFail" \in last'.ev =>
          (session'.send = session.send /\ write_state' = EncErr
           /\ encd' = encd)
    /\ session'.send = session.send + 1 =>
          /\ Len(encd') > Len(encd) /\ IsPrefix(encd, encd')
          /\ FrameSeq(SubSeq(encd', Len(encd) + 1, Len(encd')), session.send)
          /\ FrameSeq(encd', 0)
    /\ last'.op = "flush" =>
          ("Crypto" \in last'.ev <=> write_state.tag = "BufferData")
    /\ (last'.op = "write" /\ "Crypto" \in last'.ev) =>
          /\ write_state.tag \in {"Init", "BufferData", "WriteLen", "WriteData"}
          /\ write_state'.tag \in {"WriteLen", "EncErr"}
          /\ write_state'.off = 0
          /\ \/ "EncFail" \in last'.ev
             \/ /\ Len(sent') >= MAX_WRITE_BUF_LEN
                /\ buffer'.write = SubSeq(sent',
                                       Len(sent') - MAX_WRITE_BUF_LEN + 1,
                                       Len(sent'))
          /\ wire' = wire \o Unsent
    /\ write_state = EncErr => ("Crypto" \notin last'.ev /\ write_state' = EncErr)

\* C18: the session is called at most once per frame and never after it
\* failed.  A read call decrypts at most once, exactly in the call in which
\* the last ciphertext byte of a frame arrives, and a frame whose plaintext is
\* being copied out is not decrypted again; a write call encrypts at most
\* once, exactly when it fills the accumulator, a flush exactly when it
\* starts in BufferData, so a frame staged in WriteLen or WriteData is never
\* encrypted again, whatever Pending returns and transport errors came in
\* between; a failed decrypt leaves DecErr, from which no read decrypts; a
\* failed encrypt leaves EncErr, from which no write or flush encrypts.
C18_CryptoOncePerFrame ==
    [][/\ ReadStep => ReadCrypto
       /\ WriteFlushStep => WriteCrypto
      ]_vars

\* C18 witness: a transport error has occurred, one frame was encrypted
\* (once) and driven out in full, and the peer decrypted it (once) in the
\* read call in which its last byte arrived.
C18_Witness ==
    /\ nerr = 1 /\ session.send = 1 /\ session.recv = 1
    /\ write_state = WriteInit /\ wire = encd
    /\ last.op = "read" /\ "Crypto" \in last.ev /\ last.ret.kind = "Ready"
    /\ rpos = Len(wire)

----------------------------------------------------------------------------
(* Empty frames *)

\* The number of length-prefix bytes the reader holds.
PrefixOff == IF read_state.tag = "ReadLen" THEN read_state.off ELSE 0

\* The reader stands at or inside a length prefix whose two bytes, those it
\* holds and those the stream has next, are 0, 0.
ZeroPrefixNext ==
    /\ read_state.tag \in {"Init", "ReadLen"}
    /\ rpos + 2 - PrefixOff <= Len(Stream)
    /\ SubSeq(read_state.buf, 1, PrefixOff)
         \o SubSeq(Stream, rpos + 1, rpos + 2 - PrefixOff) = <<0, 0>>

\* C19: a frame whose length prefix is 0 is absorbed inside the read call
\* that completes the prefix.  Over a transport that does not suspend, such a
\* call ends exactly as a call that starts behind the empty frame in
\* ReadLen{[0, 0], 0}: same result, same bytes delivered, same state, same
\* number of decryptions; so nothing is returned for the empty frame, nothing
\* is decrypted for it, and the call goes on with the next length prefix.  No
\* read call returns in state Init.
C19_EmptyFrameAbsorbed ==
    /\ last.op = "read" => read_state.tag # "Init"
    /\ ZeroPrefixNext =>
          \A dstLen \in 1..MaxDst :
             /\ \A s \in poll_read(ReadEnvNoPending, ReadCtx, dstLen) :
                   "EmptyFrame" \in s.c.ev
             /\ {<<ReadObs(s), s.c.dec>> :
                    s \in poll_read(ReadEnvNoPending, ReadCtx, dstLen)}
                = {<<ReadObs(t), t.c.dec>> :
                    t \in poll_read(ReadEnvNoPending,
                                    [ReadCtx EXCEPT
                                       !.st = ReadLen(<<0, 0>>, 0),
                                       !.pos = rpos + 2 - PrefixOff],
                                    dstLen)}

\* C19 witness: a read call absorbed an empty frame and went on to read
\* beyond it.
C19_Witness ==
    /\ last.op = "read" /\ "EmptyFrame" \in last.ev
    /\ rpos > 2
    /\ read_state.tag \in {"ReadLen", "ReadData", "CopyData"}

----------------------------------------------------------------------------
(* Copying plaintext out *)

\* The positions in w, counted from base, at which a complete frame ends.
RECURSIVE FrameEnds(_, _)
FrameEnds(w, base) ==
    IF Len(w) < 2 \/ Len(w) < 2 + from_be_bytes(SubSeq(w, 1, 2)) THEN {}
    ELSE LET len == from_be_bytes(SubSeq(w, 1, 2))
         IN  {base + 2 + len}
             \cup FrameEnds(SubSeq(w, 3 + len, Len(w)), base + 2 + len)

\* C20: in CopyData{len, off} a read call with a destination of dstLen bytes
\* copies exactly n = min(len - off, dstLen) bytes, read_crypto[off..off+n],
\* returns Ready(n) at once, and leaves CopyData{len, off + n}, or
\* ReadLen{[0, 0], 0} iff off + n = len, without calling the transport or the
\* session.  A read call that starts elsewhere and delivers bytes delivers
\* them from the one frame it decrypted, from that frame's start, and leaves
\* the transport exactly at the end of that frame: no read returns bytes of
\* two frames or reads on after delivering.
C20_CopyDataDelivers ==
    \A dstLen \in 1..MaxDst :
      \A s \in poll_read(ReadEnv(TRUE), ReadCtx, dstLen) :
        /\ read_state.tag = "CopyData" =>
              LET len == read_state.len
                  off == read_state.off
                  n == Min(len - off, dstLen)
              IN  /\ s.ret = Ready(n)
                  /\ s.out = SubSeq(buffer.read_crypto, off + 1, off + n)
                  /\ s.c.st = IF off + n = len THEN ReadLen(<<0, 0>>, 0)
                              ELSE CopyData(len, off + n)
                  /\ s.c.io = 0 /\ s.c.dec = 0
                  /\ s.c.pos = rpos /\ s.c.n = session.recv
                  /\ s.c.read = buffer.read
                  /\ s.c.read_crypto = buffer.read_crypto
        /\ (read_state.tag # "CopyData" /\ s.out # <<>>) =>
              /\ s.c.dec = 1 /\ s.c.n = session.recv + 1
              /\ s.ret = Ready(Len(s.out))
              /\ s.out = SubSeq(s.c.read_crypto, 1, Len(s.out))
              /\ s.c.st.tag = "CopyData" =>
                    (s.c.st.off = Len(s.out) /\ Len(s.out) = dstLen)
              /\ s.c.st.tag \in {"CopyData", "ReadLen"}
              /\ s.c.pos \in FrameEnds(Stream, 0)

\* C20 witness: a read finished copying out a frame's plaintext (its second
\* part) while the next frame was already waiting in the transport, and did
\* not touch it.
C20_Witness ==
    /\ last.op = "read" /\ last.ret = Ready(1) /\ last.ev = {}
    /\ read_state = ReadLen(<<0, 0>>, 0)
    /\ Len(recvd) = 2 /\ session.recv = 1
    /\ rpos = 2 + 2 + TAGLEN /\ Len(wire) > rpos

----------------------------------------------------------------------------
(* Flush of the accumulator *)

\* C21: a flush called in BufferData{off} calls the session exactly once, on
\* write[..off], for every off including 0 (the state a write with an empty
\* source leaves from Init); when the encryption succeeds the frame produced
\* carries exactly those off bytes (for off = 0 the tag alone), whatever the
\* call hands to the transport is a prefix of that frame, and when the call
\* returns Ready(Ok(())) the whole frame, and nothing else, went to the
\* transport and the state is Init.  A flush called in WriteLen or WriteData
\* that returns Ready(Ok(())) has handed over the rest of the staged frame,
\* left the state Init and not called the session.
C21_FlushEncryptsAccumulator ==
    \A s \in poll_flush(WriteEnv(TRUE), WriteCtx) :
      /\ write_state.tag = "BufferData" =>
            LET plain == SubSeq(buffer.write, 1, write_state.off)
                frame == Frame(session.send, plain)
            IN  /\ s.c.enc = 1
                /\ "EncFail" \in s.c.ev <=> session.send >= MaxNonce
                /\ "EncFail" \notin s.c.ev =>
                      /\ s.c.encd = encd \o frame
                      /\ s.c.n = session.send + 1
                      /\ Len(frame) = 2 + write_state.off + TAGLEN
                      /\ IsPrefix(wire, s.c.wire)
                      /\ IsPrefix(s.c.wire, wire \o frame)
                      /\ s.ret = Ready(0) =>
                            (s.c.wire = wire \o frame /\ s.c.st = WriteInit)
      /\ (write_state.tag \in {"WriteLen", "WriteData"} /\ s.ret = Ready(0)) =>
            /\ s.c.enc = 0 /\ s.c.n = session.send /\ s.c.encd = encd
            /\ s.c.st = WriteInit
            /\ s.c.wire = wire \o Unsent

\* C21 witness: a write with an empty source left BufferData{off = 0}, and
\* the flush that followed put the tag-only frame on the wire.
C21_Witness ==
    /\ last.op = "flush" /\ last.ret = Ready(0) /\ "Crypto" \in last.ev
    /\ sent = <<>>
    /\ write_state = WriteInit
    /\ wire = Frame(0, <<>>) /\ Len(wire) = 2 + TAGLEN

----------------------------------------------------------------------------
(* Bounds of the state fields *)

\* The fields of read_state are within the bounds its arm of poll_read relies
\* on: buf[off ..] is not empty in ReadLen, read[off .. len] is a non-empty
\* slice of buffer.read in ReadData, read_crypto[off .. len] a slice of
\* buffer.read_crypto in CopyData.
ReadStateInBounds ==
    /\ read_state.tag = "ReadLen" =>
          read_state.off >= 0 /\ read_state.off < 2
    /\ read_state.tag = "ReadData" =>
          /\ 0 < read_state.len /\ read_state.len <= MAX_NOISE_PKG_LEN
          /\ read_state.off >= 0 /\ read_state.off < read_state.len
          /\ read_state.len <= Len(buffer.read)
    /\ read_state.tag = "CopyData" =>
          /\ read_state.off >= 0 /\ read_state.off <= read_state.len
          /\ read_state.len <= MAX_NOISE_PKG_LEN
          /\ read_state.len <= Len(buffer.read_crypto)

\* The fields of write_state are within the bounds its arm of poll_write and
\* poll_flush relies on: write[off ..] has room in BufferData, buf[off ..] is
\* not empty in WriteLen, write_crypto[off .. len] is a non-empty slice of
\* buffer.write_crypto in WriteData.
WriteStateInBounds ==
    /\ write_state.tag = "BufferData" =>
          /\ write_state.off >= 0 /\ write_state.off < MAX_WRITE_BUF_LEN
          /\ write_state.off < Len(buffer.write)
    /\ write_state.tag = "WriteLen" =>
          /\ write_state.off >= 0 /\ write_state.off < 2
          /\ 0 < write_state.len /\ write_state.len <= 2 * MAX_WRITE_BUF_LEN
          /\ write_state.len <= Len(buffer.write_crypto)
          /\ write_state.buf = to_be_bytes(write_state.len)
    /\ write_state.tag = "WriteData" =>
          /\ write_state.off >= 0 /\ write_state.off < write_state.len
          /\ write_state.len <= 2 * MAX_WRITE_BUF_LEN
          /\ write_state.len <= Len(buffer.write_crypto)

\* C22: in every state between two calls the state fields are within their
\* bounds (ReadLen.off < 2; ReadData 0 < len <= MAX_NOISE_PKG_LEN, off < len;
\* CopyData off <= len <= MAX_NOISE_PKG_LEN; BufferData.off <
\* MAX_WRITE_BUF_LEN; WriteLen off < 2, 0 < len <= 2 * MAX_WRITE_BUF_LEN;
\* WriteData off < len <= 2 * MAX_WRITE_BUF_LEN), the four slices of the
\* buffer keep their lengths, and so every slice the next call takes is in
\* range.
C22_StateFieldsInBounds ==
    /\ ReadStateInBounds
    /\ WriteStateInBounds
    /\ Len(buffer.read) = MAX_NOISE_PKG_LEN
    /\ Len(buffer.read_crypto) = MAX_NOISE_PKG_LEN
    /\ Len(buffer.write) = MAX_WRITE_BUF_LEN
    /\ Len(buffer.write_crypto) = 2 * MAX_WRITE_BUF_LEN

\* C22 witness: the reader is inside the ciphertext of a frame whose length
\* prefix was corrupted to more than any frame the writer produces, while
\* the writer is inside the ciphertext of a later frame.
C22_Witness ==
    /\ read_state.tag = "ReadData"
    /\ read_state.len > MAX_WRITE_BUF_LEN + TAGLEN /\ read_state.off > 0
    /\ write_state.tag = "WriteData" /\ write_state.off > 0
    /\ tamper.at > 0

----------------------------------------------------------------------------
(* Progress of flush *)

WriteLive == Write(FALSE)
FlushLive == Flush(FALSE)

\* A flush call during which the transport accepted at least one byte.
FlushProgress == FlushLive /\ Len(wire') > Len(wire)

NextFlushLive == WriteLive \/ FlushLive

\* The writing adapter over a transport that neither fails nor refuses
\* bytes.  The caller keeps polling flush, and the transport does not return
\* Pending forever: a flush call to which it could accept a byte at every
\* poll eventually is one in which it does.
SpecFlushLive ==
    /\ Init
    /\ [][NextFlushLive]_vars
    /\ WF_vars(FlushLive)
    /\ WF_vars(FlushProgress)

\* The bytes a flush called in the current state has to hand to the
\* transport before it can return Ready(Ok(())).
ToFlush ==
    CASE write_state.tag = "BufferData" -> 2 + write_state.off + TAGLEN
      [] write_state.tag \in {"WriteLen", "WriteData"} -> Len(Unsent)
      [] OTHER -> 0

\* The last call was a flush that returned Ready(Ok(())), and the write
\* state is Init.
Flushed ==
    last.op = "flush" /\ last.ret = Ready(0) /\ write_state = WriteInit

\* C23: every flush call returns after at most one call of the session and
\* at most as many calls of the transport as it has bytes to hand over
\* (every transport call after which it goes on has taken a byte); and once
\* the caller only polls flush, over a transport that never fails or refuses
\* and does not suspend forever, flush eventually returns Ready(Ok(())) with
\* the write state Init (or the encryption has failed), and stays so.
C23_FlushProgress ==
    /\ [](\A s \in poll_flush(WriteEnv(TRUE), WriteCtx) :
             /\ s.done
             /\ s.c.enc <= 1
             /\ s.c.io <= ToFlush)
    /\ (<>[][last'.op = "flush"]_vars) =>
          <>[](Flushed \/ write_state = EncErr)

\* C23 witness: all of B has been written; the last flush found a frame
\* that earlier calls had staged and not driven out, handed the rest of it
\* to the transport and returned Ready(Ok(())).
C23_Witness ==
    /\ Flushed
    /\ "Io" \in last.ev /\ "Crypto" \notin last.ev
    /\ sent = Payload /\ wire = encd

----------------------------------------------------------------------------
(* The staging buffers *)

\* A frame is staged in write_crypto and not yet handed over in full.
FrameStaged == write_state.tag \in {"WriteLen", "WriteData"}

\* Decrypted plaintext is staged in read_crypto and not yet copied out in
\* full.
PlainStaged == read_state.tag = "CopyData" /\ read_state.off < read_state.len

\* What a write or flush call ending as s did to write_crypto: it wrote to
\* it only by encrypting; it encrypted only after every byte of the frame
\* staged before had gone to the transport, and handed over nothing of the
\* new frame unless it is a flush; without encrypting, a staged frame stays
\* the staged frame.
WriteStagingKept(s) ==
    /\ s.c.enc = 0 => s.c.write_crypto = buffer.write_crypto
    /\ s.c.enc > 0 =>
          /\ IsPrefix(wire \o Unsent, s.c.wire)
          /\ IsPrefix(encd, s.c.encd)
          /\ IsPrefix(s.c.wire,
                      wire \o Unsent
                           \o SubSeq(s.c.encd, Len(encd) + 1, Len(s.c.encd)))
    /\ (FrameStaged /\ s.c.enc = 0
          /\ s.c.st.tag \in {"WriteLen", "WriteData"}) =>
          s.c.st.len = write_state.len

\* C24: the staging buffers are not overwritten while in use.  Every write
\* and flush call, over a transport that may suspend, fail or refuse,
\* encrypts only from BufferData (a flush that starts with a frame staged
\* never encrypts; a write that does has first handed over every byte of the
\* staged frame); every read call that starts with plaintext still to
\* deliver touches neither the session nor the transport nor a buffer.  So
\* between calls a staged frame is the last one encrypted, and staged
\* plaintext is the decryption of the ciphertext in buffer.read.
C24_StagingNotOverwritten ==
    /\ \A src \in Srcs :
         \A s \in poll_write(WriteEnv(TRUE), WriteCtx, src) :
            WriteStagingKept(s)
    /\ \A s \in poll_flush(WriteEnv(TRUE), WriteCtx) :
         /\ WriteStagingKept(s)
         /\ FrameStaged => s.c.enc = 0
    /\ PlainStaged =>
         \A dstLen \in 1..MaxDst :
           \A s \in poll_read(ReadEnv(TRUE), ReadCtx, dstLen) :
              /\ s.c.dec = 0 /\ s.c.io = 0
              /\ s.c.read = buffer.read
              /\ s.c.read_crypto = buffer.read_crypto
              /\ s.c.pos = rpos
    /\ FrameStaged =>
         LET flen == 2 + write_state.len
         IN  /\ Len(encd) >= flen
             /\ SubSeq(encd, Len(encd) - flen + 1, Len(encd))
                   = to_be_bytes(write_state.len)
                     \o SubSeq(buffer.write_crypto, 1, write_state.len)
    /\ read_state.tag = "CopyData" =>
         LET m == read_message(session.recv - 1,
                               SubSeq(buffer.read, 1, read_state.len + TAGLEN),
                               Len(buffer.read_crypto))
         IN  /\ m.ok
             /\ m.out = SubSeq(buffer.read_crypto, 1, read_state.len)

\* C24 witness: after a transport error, the second frame is staged and
\* partly handed over while the peer holds plaintext of the first frame
\* partly copied out.
C24_Witness ==
    /\ nerr = 1
    /\ session.send = 2
    /\ write_state.tag = "WriteData" /\ write_state.off > 0
    /\ read_state = CopyData(MAX_WRITE_BUF_LEN, 1)
    /\ last.op = "read"

----------------------------------------------------------------------------
(* The transport operations a call uses *)

\* The frame a flush called in the current state has to hand over: the rest
\* of the staged one, or the one it encrypts from the accumulator.
FlushFrame ==
    IF write_state.tag = "BufferData"
    THEN Frame(session.send, SubSeq(buffer.write, 1, write_state.off))
    ELSE Unsent

\* C25: the only transport operation flush and write use is poll_write, the
\* only one read uses is poll_read.  Every transport call of a call but the
\* one it returns on has moved at least one byte; a flush returns
\* Ready(Ok(())) exactly when the transport's poll_write has accepted the
\* last byte of the staged frame (at once, with no further transport call
\* whose result it would have to wait for or report), and at once without
\* any transport call when nothing is staged; no read, write or flush closes
\* the transport.
C25_FlushOnlyWrites ==
    /\ [](/\ \A s \in poll_flush(WriteEnv(TRUE), WriteCtx) :
               /\ s.c.io <= Len(s.c.wire) - Len(wire)
                            + (IF s.ret = Ready(0) THEN 0 ELSE 1)
               /\ s.ret = Ready(0) <=> s.c.st = WriteInit
               /\ s.ret = Ready(0) => s.c.wire = wire \o FlushFrame
               /\ write_state = WriteInit => (s.c.io = 0 /\ s.ret = Ready(0))
               /\ (s.ret.kind \in {"Pending", "Err"} /\ s.ret.err # "InvalidData")
                     => s.c.io > 0 \/ write_state = WriteEof
          /\ \A src \in Srcs :
               \A s \in poll_write(WriteEnv(TRUE), WriteCtx, src) :
                  /\ s.c.io <= Len(s.c.wire) - Len(wire)
                               + (IF s.ret.kind = "Ready" THEN 0 ELSE 1)
                  /\ s.ret.kind = "Ready" => s.c.wire = wire \o Unsent
          /\ \A dstLen \in 1..MaxDst :
               \A s \in poll_read(ReadEnv(TRUE), ReadCtx, dstLen) :
                  s.c.io <= s.c.pos - rpos + 1)
    /\ [][(ReadStep \/ WriteFlushStep) => closed' = closed]_vars

\* C25 witness: a flush has encrypted the accumulator, handed the whole
\* frame to the transport's poll_write and returned Ready(Ok(())); the
\* transport is open and the peer has read nothing.
C25_Witness ==
    /\ Flushed /\ "Crypto" \in last.ev /\ "Io" \in last.ev
    /\ Len(sent) = 1 /\ wire = Frame(0, sent)
    /\ ~closed /\ rpos = 0

----------------------------------------------------------------------------
(* Routing of the relay transport *)

\* The address has a P2pCircuit component.
HasCircuit(addr) == "p2p-circuit" \in {addr[k] : k \in 1..Len(addr)}

\* The calls op number i made on the inner transport, and the messages sent
\* to the behaviour for dial number i.
InnerCallsOf(op, i) ==
    {k \in 1..Len(relay.inner) :
        relay.inner[k].op = op /\ relay.inner[k].by = i}
MsgsOf(i) == {k \in 1..Len(relay.log) : relay.log[k].tx = i}

\* C26: no call on the inner transport carries an address with a P2pCircuit
\* component, and a dial or listen_on on such an address makes none.  A dial
\* on such an address has sent nothing before its future is polled and at
\* most one message ever: once the future is past the send it is exactly one
\* DialRequest carrying the dialled address and the sender of the dial's own
\* oneshot; the future resolves only with the connection the behaviour sent
\* on that oneshot.  A dial or listen_on on any other address makes exactly
\* one call on the inner transport, with that address, returns what the
\* inner transport returned (its error as EitherError::A), and sends no
\* message; every message is the DialRequest of a relayed dial.
C26_RelayRouting ==
    /\ \A k \in 1..Len(relay.inner) : ~HasCircuit(relay.inner[k].addr)
    /\ \A i \in 1..Len(relay.dials) :
         LET d == relay.dials[i]
         IN  IF HasCircuit(d.addr)
             THEN /\ InnerCallsOf("dial", i) = {}
                  /\ d.st \in {"Created", "Parked", "Awaiting", "Done",
                               "Panicked", "Dropped"}
                  /\ Cardinality(MsgsOf(i)) <= 1
                  /\ d.st = "Created" => MsgsOf(i) = {}
                  /\ d.st \in {"Parked", "Awaiting", "Done"} =>
                        \E k \in 1..Len(relay.log) :
                           /\ MsgsOf(i) = {k}
                           /\ relay.log[k] = DialRequest(d.addr, i)
                  /\ d.out # 0 <=> d.st = "Done"
                  /\ d.st = "Done" =>
                        (d.tx = "sent" /\ d.out = d.val /\ d.val \in Conns)
             ELSE /\ \E k \in 1..Len(relay.inner) :
                        /\ InnerCallsOf("dial", i) = {k}
                        /\ relay.inner[k].addr = d.addr
                        /\ d.st = MapInner(relay.inner[k].res)
                  /\ d.st \in {"Inner", "ErrNotSupported", "ErrOtherA"}
                  /\ MsgsOf(i) = {} /\ d.tx = "none" /\ d.out = 0
    /\ \A i \in 1..Len(relay.listens) :
         LET l == relay.listens[i]
         IN  IF HasCircuit(l.addr)
             THEN /\ InnerCallsOf("listen_on", i) = {}
                  /\ l.st \in {"Relayed", "Panicked"}
             ELSE /\ \E k \in 1..Len(relay.inner) :
                        /\ InnerCallsOf("listen_on", i) = {k}
                        /\ relay.inner[k].addr = l.addr
                        /\ l.st = MapInner(relay.inner[k].res)
    /\ \A k \in 1..Len(relay.log) :
         /\ relay.log[k].type = "DialRequest"
         /\ relay.log[k].tx \in 1..Len(relay.dials)
         /\ HasCircuit(relay.dials[relay.log[k].tx].addr)
    /\ Len(relay.inner) + Len(relay.log)
          <= Len(relay.dials) + Len(relay.listens)

\* C26 witness: two dials on addresses with a P2pCircuit component, in the
\* middle and alone; each has sent its DialRequest, the behaviour sent a
\* different connection on each oneshot, and each future resolved with its
\* own; the inner transport was never called.
C26_Witness ==
    /\ Len(relay.dials) = 2
    /\ Len(relay.dials[1].addr) > 1 /\ HasCircuit(relay.dials[1].addr)
    /\ relay.dials[2].addr = <<"p2p-circuit">>
    /\ relay.dials[1].st = "Done" /\ relay.dials[2].st = "Done"
    /\ relay.dials[1].out = 2 /\ relay.dials[2].out = 1
    /\ Len(relay.log) = 2 /\ relay.chan = <<>>
    /\ relay.inner = <<>>

----------------------------------------------------------------------------
(* The notifier of an incoming relay request *)

\* The request is gone: it was dropped, or the future that took it has
\* completed or was dropped.
ReqGone == req.owner = "gone"

\* C27: the receiver resolves once, and only once the request is gone.  The
\* notifier is alive exactly as long as the request is held by the handler
\* or by the running future of fulfill or deny, so the receiver is pending
\* all that time, and a poll of it resolves it (once) as soon as the request
\* was dropped or the future completed or was dropped.  When the future of
\* fulfill has returned Ok(()) the Success status had been sent and the copy
\* has ended.  The first thing fulfill writes to the source is the Success
\* status, before any byte goes to the destination or back; deny writes
\* nothing but HopCantDialDst to the source and nothing to the destination.
C27_NotifierFollowsRequest ==
    /\ req.notifier = "dropped" <=> ReqGone
    /\ req.rx = "resolved" => ReqGone
    /\ req.resolved = (IF req.rx = "resolved" THEN 1 ELSE 0)
    /\ ReqGone => req_poll_rx(req).rx = "resolved"
    /\ ~ReqGone => req_poll_rx(req).rx = "pending"
    /\ ReqGone <=> \/ req.op = "none" /\ req.owner # "handler"
                   \/ req.pc \in {"done", "dropped"}
    /\ req.op = "fulfill" =>
          /\ req.to_src # <<>> => req.to_src[1] = "Success"
          /\ \A k \in 2..Len(req.to_src) : req.to_src[k] = "data"
          /\ req.to_dst # <<>> => req.to_src # <<>>
          /\ req.pc = "copying" => req.to_src # <<>>
          /\ (req.pc = "done" /\ req.res = "Ok") => req.to_src # <<>>
          /\ (req.pc = "done" /\ req.to_src = <<>>) => req.res = "Err"
    /\ req.op = "deny" =>
          /\ req.to_dst = <<>>
          /\ req.to_src \in {<<>>, <<"HopCantDialDst">>}
          /\ (req.pc = "done" /\ req.res = "Ok") =>
                req.to_src = <<"HopCantDialDst">>
    /\ req.op = "none" => (req.to_src = <<>> /\ req.to_dst = <<>>)

\* C27 witness: the future of fulfill has sent Success, relayed bytes in
\* both directions and returned Ok(()); the receiver, polled after that, has
\* resolved.
C27_Witness ==
    /\ req.op = "fulfill" /\ req.pc = "done" /\ req.res = "Ok"
    /\ req.to_src = <<"Success", "data">> /\ Len(req.to_dst) = 2
    /\ req.rx = "resolved" /\ req.resolved = 1

============================================================================
